---- MODULE Spec2Model ----
(***************************************************************************)
(* Route selection and multi-stage funding orchestration of the Aave MCP   *)
(* server: the swap executors (OneInchService.executeSwap,                 *)
(* SwapService.swap), the deposit (AaveService.stake), the workflow        *)
(* coordinators (smartStakeWithAutoFunding, autoStakeWithBestAPY,          *)
(* smartDeposit) and the route finder (SwapService.getQuote).              *)
(*                                                                         *)
(* Every await of the TypeScript source that reaches a collaborator is one *)
(* step.  A collaborator call that can reject is a choice between its      *)
(* outcomes.  Amounts are integers in base units.  The sender is a single  *)
(* address: the server wallet and the userAddress coincide, which is the   *)
(* default of the entry points (getWalletAddress).                         *)
(***************************************************************************)
EXTENDS Integers, Sequences, FiniteSets, TLC

\* ------------------------------------------------------------------ bounds
MaxAmt == 2

\* the concurrent invocations of one sender
Procs == {1, 2}
Amounts == 0..MaxAmt
Tokens == {"ETH", "WETH", "USDC", "GHO"}
Venues == {"1inch", "uniswap", "aave"}

\* ethers.constants.MaxUint256, the amount every approval grants
MaxUint256 == MaxAmt + 1

NoArgs == [from |-> "-", to |-> "-", amount |-> 0]
NoRes == [kind |-> "none", venue |-> "-"]

VARIABLES
    \* configuration
    AUTO_EXECUTE,   \* the AUTO_EXECUTE setting of the deployment
    wallet,         \* whether a private key (server wallet) is configured
    \* chain state of the sender
    chainBal,       \* token -> balance
    allowance,      \* spender (venue) -> allowance of the token being spent
    \* every state-changing call submitted, in order
    txlog,
    \* OneInchService.executeSwap, per invocation
    oipc, oiArgs, oiRes,
    \* SwapService.swap, per invocation
    swpc, swArgs, swQuote, swRes,
    \* what each invocation observed and had confirmed, per venue
    obsAllow, approved,
    \* AaveService.stake
    stpc, stArgs, stRes,
    \* the workflow coordinator
    entry,          \* the entry point invoked
    wfArgs,         \* its arguments
    wf,             \* its position and locals
    stakeCalls,     \* the arguments of every AaveService.stake call
    stages,         \* the stages the coordinator entered and how each ended
    result,         \* what the entry point returned or threw
    \* SwapService.getQuote
    qpc,            \* its position
    qArgs,          \* fromToken, toToken, amount
    qlog,           \* every call to the aggregator and to the AMM quoter, in order
    aggOut,         \* what the aggregator quoted: NotAsked, Failed or its amountOut
    dq,             \* the locals of the running getDirectQuote
    directFails,    \* how many fee tiers of the direct route failed
    directOuts,     \* what each fee tier of the direct route answered
    tried,          \* the intermediates tried, each with what its legs gave
    qerr,           \* the error getQuote has thrown
    decimalsCache,  \* BlockchainService.decimalsCache
    mock,           \* the collaborators answer a call as they answered it before
    rpc,            \* which reads of a token contract fail: none, decimals or all
    preloaded,      \* preloadTokenDecimals has run
    answers,        \* what the collaborators have answered, by call
    run,            \* 1 in the first invocation of getQuote, 2 in the second
    firstRun,       \* the outcome of the first invocation
    mh,             \* the locals of getMultiHopQuote
    qres,           \* the quote returned
    pl,             \* the locals of the search for a source
    sl,             \* the locals of the least output of an AMM swap
    rq              \* the JSON-RPC request being handled and its responses
chainVars == <<chainBal, allowance>>
oiVars == <<oipc, oiArgs, oiRes>>
swVars == <<swpc, swArgs, swQuote, swRes>>
stVars == <<stpc, stArgs, stRes>>
wfVars == <<entry, wfArgs, wf, stakeCalls, stages, result>>
cfgVars == <<AUTO_EXECUTE, wallet>>
qVars == <<qpc, qArgs, qlog, aggOut, dq, directFails, directOuts, tried, qerr,
          decimalsCache, mock, rpc, preloaded, answers, run, firstRun,
          mh, qres>>
plVars == <<pl>>
slVars == <<sl>>
mcpVars == <<rq>>
vars == <<cfgVars, mcpVars, chainVars, txlog, oiVars, swVars, obsAllow, approved,
          stVars, wfVars, qVars, plVars, slVars>>

\* ------------------------------------------------------------ collaborators

Range(seq) == {seq[i] : i \in DOMAIN seq}
Last(seq) == seq[Len(seq)]

\* BlockchainService.isAutoExecuteEnabled: the configuration read is commented
\* out and the method returns true.
isAutoExecuteEnabled == TRUE

IsETH(t) == t = "ETH"

Tx(p, kind, venue, token, amt) ==
    [p |-> p, kind |-> kind, venue |-> venue, token |-> token, amount |-> amt]

Min(a, b) == IF a < b THEN a ELSE b

\* what a confirmed swap pays out: nothing, or enough for any later step
Outputs == {0, MaxAmt}

\* a confirmed swap moves amountIn out of the source and the output into the
\* destination balance
Swapped(bal, a, out) ==
    [bal EXCEPT ![a.from] = @ - a.amount,
                ![a.to] = Min(MaxAmt, @ + out)]

\* the chain confirms a swap only when the sender holds the amount and, for an
\* ERC20 source, the router may spend it
CanSettle(a, venue) ==
    /\ chainBal[a.from] >= a.amount
    /\ IsETH(a.from) \/ allowance[venue] >= a.amount

\* ------------------------------------------- OneInchService.executeSwap

OiThrow(p) ==
    /\ oipc' = [oipc EXCEPT ![p] = "thrown"]
    /\ oiRes' = [oiRes EXCEPT ![p] = [NoRes EXCEPT !.kind = "thrown", !.venue = "1inch"]]

\* lines 132-173: the mode check, then the wallet
executeSwap(p) ==
    /\ oipc[p] = "start"
    /\ IF ~isAutoExecuteEnabled
       THEN \* simulation: only a quote is taken
            \/ /\ oiRes' = [oiRes EXCEPT ![p] = [kind |-> "sim", venue |-> "1inch"]]
               /\ oipc' = [oipc EXCEPT ![p] = "ret"]
            \/ OiThrow(p)
       ELSE IF ~wallet
            THEN OiThrow(p)
            ELSE /\ oipc' = [oipc EXCEPT ![p] = "api"]
                 /\ UNCHANGED oiRes
    /\ UNCHANGED <<qVars, cfgVars, mcpVars, plVars, slVars, chainVars, txlog, oiArgs, swVars, obsAllow,
                   approved, stVars, wfVars>>

\* lines 177-201: the /swap API call returns the transaction data
OiSwapApi(p) ==
    /\ oipc[p] = "api"
    /\ \/ /\ oipc' = [oipc EXCEPT ![p] =
                        IF IsETH(oiArgs[p].from) THEN "send" ELSE "allow"]
          /\ UNCHANGED oiRes
       \/ OiThrow(p)
    /\ UNCHANGED <<qVars, cfgVars, mcpVars, plVars, slVars, chainVars, txlog, oiArgs, swVars, obsAllow, approved,
                   stVars, wfVars>>

\* ensureApproval without its approval branch: the allowance is read and the
\* swap is sent whatever it is
ensureApprovalSkipped(p) ==
    /\ oipc[p] = "allow"
    /\ \/ /\ obsAllow' = [obsAllow EXCEPT ![p]["1inch"] = allowance["1inch"]]
          /\ oipc' = [oipc EXCEPT ![p] = "send"]
          /\ UNCHANGED oiRes
       \/ OiThrow(p) /\ UNCHANGED obsAllow
    /\ UNCHANGED <<qVars, cfgVars, mcpVars, plVars, slVars, chainVars, txlog, oiArgs, swVars, approved,
                   stVars, wfVars>>

\* ensureApproval, lines 257-266: the allowance read
ensureApproval(p) ==
    /\ oipc[p] = "allow"
    /\ \/ /\ obsAllow' = [obsAllow EXCEPT ![p]["1inch"] = allowance["1inch"]]
          /\ oipc' = [oipc EXCEPT ![p] =
                        IF allowance["1inch"] < oiArgs[p].amount
                        THEN "approveSend" ELSE "send"]
          /\ UNCHANGED oiRes
       \/ OiThrow(p) /\ UNCHANGED obsAllow
    /\ UNCHANGED <<qVars, cfgVars, mcpVars, plVars, slVars, chainVars, txlog, oiArgs, swVars, approved,
                   stVars, wfVars>>

\* ensureApproval, lines 273-276: approve(spender, MaxUint256) is sent
OiApproveSend(p) ==
    /\ oipc[p] = "approveSend"
    /\ \/ /\ txlog' = Append(txlog, Tx(p, "approve", "1inch", oiArgs[p].from, MaxUint256))
          /\ oipc' = [oipc EXCEPT ![p] = "approveWait"]
          /\ UNCHANGED oiRes
       \/ OiThrow(p) /\ UNCHANGED txlog
    /\ UNCHANGED <<qVars, cfgVars, mcpVars, plVars, slVars, chainVars, oiArgs, swVars, obsAllow, approved,
                   stVars, wfVars>>

\* ensureApproval, line 277: approveTx.wait()
OiApproveWait(p) ==
    /\ oipc[p] = "approveWait"
    /\ \/ /\ allowance' = [allowance EXCEPT !["1inch"] = MaxUint256]
          /\ approved' = [approved EXCEPT ![p] = @ \cup {"1inch"}]
          /\ oipc' = [oipc EXCEPT ![p] = "send"]
          /\ UNCHANGED oiRes
       \/ OiThrow(p) /\ UNCHANGED <<allowance, approved>>
    /\ UNCHANGED <<qVars, cfgVars, mcpVars, plVars, slVars, chainBal, txlog, oiArgs, swVars, obsAllow,
                   stVars, wfVars>>

\* lines 203-214: signer.sendTransaction(tx)
OiSend(p) ==
    /\ oipc[p] = "send"
    /\ \/ /\ txlog' = Append(txlog, Tx(p, "swap", "1inch", oiArgs[p].from,
                                   oiArgs[p].amount))
          /\ oipc' = [oipc EXCEPT ![p] = "wait"]
          /\ UNCHANGED oiRes
       \/ OiThrow(p) /\ UNCHANGED txlog
    /\ UNCHANGED <<qVars, cfgVars, mcpVars, plVars, slVars, chainVars, oiArgs, swVars, obsAllow, approved,
                   stVars, wfVars>>

\* lines 215-237: transaction.wait(), then the result record
OiWait(p) ==
    /\ oipc[p] = "wait"
    /\ \/ /\ CanSettle(oiArgs[p], "1inch")
          /\ \E out \in Outputs : chainBal' = Swapped(chainBal, oiArgs[p], out)
          /\ oiRes' = [oiRes EXCEPT ![p] = [kind |-> "ok", venue |-> "1inch"]]
          /\ oipc' = [oipc EXCEPT ![p] = "ret"]
       \/ OiThrow(p) /\ UNCHANGED chainBal
    /\ UNCHANGED <<qVars, cfgVars, mcpVars, plVars, slVars, allowance, txlog, oiArgs, swVars, obsAllow,
                   approved, stVars, wfVars>>

\* ------------------------------------------------------ SwapService.swap

SwThrow(p) ==
    /\ swpc' = [swpc EXCEPT ![p] = "thrown"]
    /\ swRes' = [swRes EXCEPT ![p] = [NoRes EXCEPT !.kind = "thrown", !.venue = "uniswap"]]

\* lines 356-365: the aggregator is tried first
swap(p) ==
    /\ swpc[p] = "start"
    /\ oipc[p] = "idle"
    /\ swpc' = [swpc EXCEPT ![p] = "oi"]
    /\ oipc' = [oipc EXCEPT ![p] = "start"]
    /\ oiArgs' = [oiArgs EXCEPT ![p] = swArgs[p]]
    /\ UNCHANGED <<qVars, cfgVars, mcpVars, plVars, slVars, chainVars, txlog, oiRes, swArgs, swQuote, swRes,
                   obsAllow, approved, stVars, wfVars>>

\* lines 366-370: its result is returned; its failure falls through to the AMM
SwOneInchDone(p) ==
    /\ swpc[p] = "oi"
    /\ oipc[p] \in {"ret", "thrown"}
    /\ oipc' = [oipc EXCEPT ![p] = "idle"]
    /\ IF oipc[p] = "ret"
       THEN /\ swRes' = [swRes EXCEPT ![p] = oiRes[p]]
            /\ swpc' = [swpc EXCEPT ![p] = "ret"]
       ELSE /\ swpc' = [swpc EXCEPT ![p] = "quote"]
            /\ UNCHANGED swRes
    /\ UNCHANGED <<qVars, cfgVars, mcpVars, plVars, slVars, chainVars, txlog, oiArgs, oiRes, swArgs, swQuote,
                   obsAllow, approved, stVars, wfVars>>

\* lines 387-394: the quote of this invocation
SwGetQuote(p) ==
    /\ swpc[p] = "quote"
    /\ \/ /\ swQuote' = [swQuote EXCEPT ![p] = "quoted"]
          /\ swpc' = [swpc EXCEPT ![p] = "balance"]
          /\ UNCHANGED swRes
       \/ SwThrow(p) /\ UNCHANGED swQuote
    /\ UNCHANGED <<qVars, cfgVars, mcpVars, plVars, slVars, chainVars, txlog, oiVars, swArgs, obsAllow, approved,
                   stVars, wfVars>>

\* lines 396-440: the balance check, then the mode check
SwCheckBalance(p) ==
    /\ swpc[p] = "balance"
    /\ \/ IF chainBal[swArgs[p].from] < swArgs[p].amount
          THEN SwThrow(p)
          ELSE IF ~isAutoExecuteEnabled
               THEN /\ swRes' = [swRes EXCEPT ![p] =
                                   [kind |-> "sim", venue |-> "uniswap"]]
                    /\ swpc' = [swpc EXCEPT ![p] = "ret"]
               ELSE /\ swpc' = [swpc EXCEPT ![p] =
                          IF IsETH(swArgs[p].from) THEN "send" ELSE "allow"]
                    /\ UNCHANGED swRes
       \/ SwThrow(p)
    /\ UNCHANGED <<qVars, cfgVars, mcpVars, plVars, slVars, chainVars, txlog, oiVars, swArgs, swQuote, obsAllow,
                   approved, stVars, wfVars>>

\* lines 442-453: the allowance read
SwAllowance(p) ==
    /\ swpc[p] = "allow"
    /\ \/ /\ obsAllow' = [obsAllow EXCEPT ![p]["uniswap"] = allowance["uniswap"]]
          /\ swpc' = [swpc EXCEPT ![p] =
                        IF allowance["uniswap"] < swArgs[p].amount
                        THEN "approveSend" ELSE "send"]
          /\ UNCHANGED swRes
       \/ SwThrow(p) /\ UNCHANGED obsAllow
    /\ UNCHANGED <<qVars, cfgVars, mcpVars, plVars, slVars, chainVars, txlog, oiVars, swArgs, swQuote, approved,
                   stVars, wfVars>>

\* lines 454-457: approve(router, MaxUint256) is sent
SwApproveSend(p) ==
    /\ swpc[p] = "approveSend"
    /\ \/ /\ txlog' = Append(txlog, Tx(p, "approve", "uniswap", swArgs[p].from,
                                   MaxUint256))
          /\ swpc' = [swpc EXCEPT ![p] = "approveWait"]
          /\ UNCHANGED swRes
       \/ SwThrow(p) /\ UNCHANGED txlog
    /\ UNCHANGED <<qVars, cfgVars, mcpVars, plVars, slVars, chainVars, oiVars, swArgs, swQuote, obsAllow, approved,
                   stVars, wfVars>>

\* line 458: approveTx.wait()
SwApproveWait(p) ==
    /\ swpc[p] = "approveWait"
    /\ \/ /\ allowance' = [allowance EXCEPT !["uniswap"] = MaxUint256]
          /\ approved' = [approved EXCEPT ![p] = @ \cup {"uniswap"}]
          /\ swpc' = [swpc EXCEPT ![p] = "send"]
          /\ UNCHANGED swRes
       \/ SwThrow(p) /\ UNCHANGED <<allowance, approved>>
    /\ UNCHANGED <<qVars, cfgVars, mcpVars, plVars, slVars, chainBal, txlog, oiVars, swArgs, swQuote, obsAllow,
                   stVars, wfVars>>

\* lines 463-492: exactInputSingle is sent
SwSend(p) ==
    /\ swpc[p] = "send"
    /\ \/ /\ txlog' = Append(txlog, Tx(p, "swap", "uniswap", swArgs[p].from,
                                   swArgs[p].amount))
          /\ swpc' = [swpc EXCEPT ![p] = "wait"]
          /\ UNCHANGED swRes
       \/ SwThrow(p) /\ UNCHANGED txlog
    /\ UNCHANGED <<qVars, cfgVars, mcpVars, plVars, slVars, chainVars, oiVars, swArgs, swQuote, obsAllow, approved,
                   stVars, wfVars>>

\* lines 493-508: swapTx.wait(), then the result record
SwWait(p) ==
    /\ swpc[p] = "wait"
    /\ \/ /\ CanSettle(swArgs[p], "uniswap")
          /\ \E out \in Outputs : chainBal' = Swapped(chainBal, swArgs[p], out)
          /\ swRes' = [swRes EXCEPT ![p] = [kind |-> "ok", venue |-> "uniswap"]]
          /\ swpc' = [swpc EXCEPT ![p] = "ret"]
       \/ SwThrow(p) /\ UNCHANGED chainBal
    /\ UNCHANGED <<qVars, cfgVars, mcpVars, plVars, slVars, allowance, txlog, oiVars, swArgs, swQuote, obsAllow,
                   approved, stVars, wfVars>>

\* one step of any swap executor of invocation p
ExecutorStep(p) ==
    \/ executeSwap(p) \/ OiSwapApi(p) \/ ensureApproval(p) \/ OiApproveSend(p)
    \/ OiApproveWait(p) \/ OiSend(p) \/ OiWait(p)
    \/ swap(p) \/ SwOneInchDone(p) \/ SwGetQuote(p) \/ SwCheckBalance(p)
    \/ SwAllowance(p) \/ SwApproveSend(p) \/ SwApproveWait(p) \/ SwSend(p)
    \/ SwWait(p)

\* ------------------------------------------------------ AaveService.stake
\* The deposit runs in the workflow's invocation, W.
W == CHOOSE p \in Procs : \A q \in Procs : p <= q

StThrow ==
    /\ stpc' = "thrown"
    /\ stRes' = [NoRes EXCEPT !.kind = "thrown", !.venue = "aave"]

\* lines 283-325: the balance check, the mode check, the allowance read
stake ==
    /\ stpc = "start"
    /\ \/ IF chainBal[stArgs.from] < stArgs.amount
          THEN StThrow /\ UNCHANGED obsAllow
          ELSE IF ~isAutoExecuteEnabled
               THEN /\ stRes' = [kind |-> "sim", venue |-> "aave"]
                    /\ stpc' = "ret"
                    /\ UNCHANGED obsAllow
               ELSE /\ obsAllow' = [obsAllow EXCEPT ![W]["aave"] = allowance["aave"]]
                    /\ stpc' = IF allowance["aave"] < stArgs.amount
                               THEN "approveSend" ELSE "supplySend"
                    /\ UNCHANGED stRes
       \/ StThrow /\ UNCHANGED obsAllow
    /\ UNCHANGED <<qVars, cfgVars, mcpVars, plVars, slVars, chainVars, txlog, oiVars, swVars, approved, stArgs, wfVars>>

\* lines 326-339: the gas estimate, then approve(pool, MaxUint256) is sent
StApproveSend ==
    /\ stpc = "approveSend"
    /\ \/ /\ txlog' = Append(txlog, Tx(W, "approve", "aave", stArgs.from, MaxUint256))
          /\ stpc' = "approveWait"
          /\ UNCHANGED stRes
       \/ StThrow /\ UNCHANGED txlog
    /\ UNCHANGED <<qVars, cfgVars, mcpVars, plVars, slVars, chainVars, oiVars, swVars, obsAllow, approved, stArgs, wfVars>>

\* line 340: approveTx.wait()
StApproveWait ==
    /\ stpc = "approveWait"
    /\ \/ /\ allowance' = [allowance EXCEPT !["aave"] = MaxUint256]
          /\ approved' = [approved EXCEPT ![W] = @ \cup {"aave"}]
          /\ stpc' = "supplySend"
          /\ UNCHANGED stRes
       \/ StThrow /\ UNCHANGED <<allowance, approved>>
    /\ UNCHANGED <<qVars, cfgVars, mcpVars, plVars, slVars, chainBal, txlog, oiVars, swVars, obsAllow, stArgs, wfVars>>

\* lines 343-369: the gas estimate, then supply(token, amount, user, 0) is sent
StSupplySend ==
    /\ stpc = "supplySend"
    /\ \/ /\ txlog' = Append(txlog, Tx(W, "supply", "aave", stArgs.from, stArgs.amount))
          /\ stpc' = "supplyWait"
          /\ UNCHANGED stRes
       \/ StThrow /\ UNCHANGED txlog
    /\ UNCHANGED <<qVars, cfgVars, mcpVars, plVars, slVars, chainVars, oiVars, swVars, obsAllow, approved, stArgs, wfVars>>

\* lines 371-387: supplyTx.wait(), then the result record
StSupplyWait ==
    /\ stpc = "supplyWait"
    /\ \/ /\ chainBal[stArgs.from] >= stArgs.amount
          /\ allowance["aave"] >= stArgs.amount
          /\ chainBal' = [chainBal EXCEPT ![stArgs.from] = @ - stArgs.amount]
          /\ stRes' = [kind |-> "ok", venue |-> "aave"]
          /\ stpc' = "ret"
       \/ StThrow /\ UNCHANGED chainBal
    /\ UNCHANGED <<qVars, cfgVars, mcpVars, plVars, slVars, allowance, txlog, oiVars, swVars, obsAllow, approved,
                   stArgs, wfVars>>

StakeStep ==
    \/ stake \/ StApproveSend \/ StApproveWait \/ StSupplySend \/ StSupplyWait

\* ------------------------------------------------- the workflow coordinator

\* no balances are part of the result
NoBalances == [t \in Tokens |-> -1]

NoResult == [status |-> "none", suggestion |-> FALSE, stage |-> "-",
             ethSwap |-> "none", mainSwap |-> "none", stake |-> "none",
             reason |-> "-", balances |-> NoBalances]

\* { success: false, error: error.message }
FailGeneric == [NoResult EXCEPT !.status = "fail"]

\* the error is rethrown to the caller
Thrown == [NoResult EXCEPT !.status = "throw"]

WfStart == [pc |-> "start", snapshot |-> [t \in Tokens |-> 0], plan |-> NoArgs,
            source |-> "-",
            fundRes |-> NoRes, confirmed |-> FALSE, mainQuote |-> 0,
            use1inch |-> FALSE, mainRes |-> NoRes]

Finish(r) ==
    /\ result' = r
    /\ wf' = [wf EXCEPT !.pc = "done"]

CallSwap(a) ==
    /\ swpc' = [swpc EXCEPT ![W] = "start"]
    /\ swArgs' = [swArgs EXCEPT ![W] = a]
    /\ swRes' = [swRes EXCEPT ![W] = NoRes]
    /\ swQuote' = [swQuote EXCEPT ![W] = "none"]

CallOneInch(a) ==
    /\ oipc' = [oipc EXCEPT ![W] = "start"]
    /\ oiArgs' = [oiArgs EXCEPT ![W] = a]
    /\ oiRes' = [oiRes EXCEPT ![W] = NoRes]

CallStake(asset, amt) ==
    /\ stpc' = "start"
    /\ stArgs' = [from |-> asset, to |-> "-", amount |-> amt]
    /\ stRes' = NoRes
    /\ stakeCalls' = Append(stakeCalls, [asset |-> asset, amount |-> amt])

SwapReturned == swpc[W] \in {"ret", "thrown"}
OneInchReturned == oipc[W] \in {"ret", "thrown"} /\ swpc[W] = "idle"
StakeReturned == stpc \in {"ret", "thrown"}

\* the ETH balance below which no funding swap is attempted (0.001 ETH)
MinEthForShortfall == 1

\* AdvancedSwapService.smartStakeWithAutoFunding, lines 919-947: the balance
\* snapshot and the shortfall test
smartStakeWithAutoFunding ==
    /\ entry = "smartStakeWithAutoFunding"
    /\ wf.pc = "start"
    /\ \/ Finish(FailGeneric)
       \/ IF chainBal[wfArgs.from] < wfArgs.amount
          THEN IF chainBal["ETH"] < MinEthForShortfall
               THEN /\ result' = [FailGeneric EXCEPT !.suggestion = TRUE]
                    /\ wf' = [wf EXCEPT !.pc = "done", !.snapshot = chainBal]
               ELSE /\ wf' = [wf EXCEPT !.pc = "af_rate", !.snapshot = chainBal]
                    /\ UNCHANGED result
          ELSE /\ wf' = [wf EXCEPT !.pc = "af_mainquote", !.snapshot = chainBal]
               /\ UNCHANGED result
    /\ UNCHANGED <<qVars, cfgVars, mcpVars, plVars, slVars, chainVars, txlog, oiVars, swVars, obsAllow, approved,
                   stVars, entry, wfArgs, stakeCalls, stages>>

\* the ETH estimate is planned whatever the ETH balance
AfEstimateAnyBalance ==
    /\ wf.pc = "af_rate"
    /\ \/ \E ethNeeded \in Amounts :
            /\ wf' = [wf EXCEPT !.pc = "af_precise", !.source = "ETH",
                                !.plan = [from |-> "ETH", to |-> wfArgs.from,
                                          amount |-> ethNeeded]]
            /\ UNCHANGED result
       \/ \* the rate quote failed and the source has no built-in estimate
          /\ wfArgs.from \notin {"USDC", "USDT"}
          /\ Finish(FailGeneric)
    /\ UNCHANGED <<qVars, cfgVars, mcpVars, plVars, slVars, chainVars, txlog, oiVars, swVars, obsAllow, approved,
                   stVars, entry, wfArgs, stakeCalls, stages>>

\* lines 949-981: the rate quote and the ETH estimate.  The estimate is
\* shortfall / rate * 1.05 for a rate the quoter alone decides.
AfEstimate ==
    /\ wf.pc = "af_rate"
    /\ \/ \E ethNeeded \in Amounts :
            IF ethNeeded > wf.snapshot["ETH"]
            THEN Finish(FailGeneric)
            ELSE /\ wf' = [wf EXCEPT !.pc = "af_precise", !.source = "ETH",
                                     !.plan = [from |-> "ETH", to |-> wfArgs.from,
                                               amount |-> ethNeeded]]
                 /\ UNCHANGED result
       \/ \* the rate quote failed and the source has no built-in estimate
          /\ wfArgs.from \notin {"USDC", "USDT"}
          /\ Finish(FailGeneric)
    /\ UNCHANGED <<qVars, cfgVars, mcpVars, plVars, slVars, chainVars, txlog, oiVars, swVars, obsAllow, approved,
                   stVars, entry, wfArgs, stakeCalls, stages>>

\* lines 983-1040: the precise quote (or its estimate), the mode check, then
\* the funding swap is invoked
AfFundingSwap ==
    /\ wf.pc = "af_precise"
    /\ IF ~isAutoExecuteEnabled
       THEN /\ Finish([NoResult EXCEPT !.status = "sim"])
            /\ UNCHANGED <<swVars, stages>>
       ELSE /\ CallSwap(wf.plan)
            /\ wf' = [wf EXCEPT !.pc = "af_fund"]
            /\ stages' = Append(stages, "funding-swap")
            /\ UNCHANGED result
    /\ UNCHANGED <<qVars, cfgVars, mcpVars, plVars, slVars, chainVars, txlog, oiVars, obsAllow, approved,
                   stVars, entry, wfArgs, stakeCalls>>

\* the funding swap's error is logged and the workflow goes on to the target
\* swap
AfFundingDoneIgnoringFailure ==
    /\ wf.pc = "af_fund"
    /\ SwapReturned
    /\ swpc' = [swpc EXCEPT ![W] = "idle"]
    /\ wf' = [wf EXCEPT !.fundRes = swRes[W], !.pc = "af_mainquote",
                        !.confirmed = TRUE]
    /\ stages' = Append(stages, IF swpc[W] = "thrown" THEN "funding-swap:failed"
                                ELSE "funding-swap:ok")
    /\ UNCHANGED <<qVars, cfgVars, mcpVars, plVars, slVars, chainVars, txlog, oiVars, swArgs, swQuote, swRes,
                   obsAllow, approved, stVars, entry, wfArgs, stakeCalls, result>>

\* the funding swap's error is returned like any other, without a suggestion
AfFundingDoneNoSuggestion ==
    /\ wf.pc = "af_fund"
    /\ SwapReturned
    /\ swpc' = [swpc EXCEPT ![W] = "idle"]
    /\ IF swpc[W] = "thrown"
       THEN /\ Finish(FailGeneric)
            /\ stages' = Append(stages, "funding-swap:failed")
       ELSE /\ wf' = [wf EXCEPT !.fundRes = swRes[W],
                                !.pc = IF swRes[W].kind = "ok"
                                       THEN "af_confirm" ELSE "af_mainquote"]
            /\ stages' = Append(stages, "funding-swap:ok")
            /\ UNCHANGED result
    /\ UNCHANGED <<qVars, cfgVars, mcpVars, plVars, slVars, chainVars, txlog, oiVars, swArgs, swQuote, swRes,
                   obsAllow, approved, stVars, entry, wfArgs, stakeCalls>>

\* lines 1041-1063: the funding swap returned or threw
AfFundingDone ==
    /\ wf.pc = "af_fund"
    /\ SwapReturned
    /\ swpc' = [swpc EXCEPT ![W] = "idle"]
    /\ IF swpc[W] = "thrown"
       THEN /\ Finish([FailGeneric EXCEPT !.suggestion = TRUE, !.stage = "funding-swap"])
            /\ stages' = Append(stages, "funding-swap:failed")
       ELSE /\ wf' = [wf EXCEPT !.fundRes = swRes[W],
                                !.pc = IF swRes[W].kind = "ok"
                                       THEN "af_confirm" ELSE "af_mainquote"]
            /\ stages' = Append(stages, "funding-swap:ok")
            /\ UNCHANGED result
    /\ UNCHANGED <<qVars, cfgVars, mcpVars, plVars, slVars, chainVars, txlog, oiVars, swArgs, swQuote, swRes,
                   obsAllow, approved, stVars, entry, wfArgs, stakeCalls>>

\* line 1059: waitForTransaction(ethSwapResult.transactionHash, 1)
AfConfirm ==
    /\ wf.pc = "af_confirm"
    /\ \/ /\ wf' = [wf EXCEPT !.pc = "af_mainquote", !.confirmed = TRUE]
          /\ UNCHANGED result
       \/ Finish(FailGeneric)
    /\ UNCHANGED <<qVars, cfgVars, mcpVars, plVars, slVars, chainVars, txlog, oiVars, swVars, obsAllow, approved,
                   stVars, entry, wfArgs, stakeCalls, stages>>

\* lines 1066-1114: the quote of the target swap, aggregator first, and the
\* target swap through the venue that quoted
AfTargetSwap ==
    /\ wf.pc = "af_mainquote"
    /\ \/ /\ \E out \in Amounts :
                wf' = [wf EXCEPT !.pc = "af_main", !.mainQuote = out, !.use1inch = TRUE]
          /\ CallOneInch(wfArgs)
          /\ stages' = Append(stages, "target-swap")
          /\ UNCHANGED <<swVars, result>>
       \/ /\ \E out \in Amounts :
                wf' = [wf EXCEPT !.pc = "af_main", !.mainQuote = out, !.use1inch = FALSE]
          /\ CallSwap(wfArgs)
          /\ stages' = Append(stages, "target-swap")
          /\ UNCHANGED <<oiVars, result>>
       \/ /\ Finish(FailGeneric)
          /\ UNCHANGED <<oiVars, swVars, stages>>
    /\ UNCHANGED <<qVars, cfgVars, mcpVars, plVars, slVars, chainVars, txlog, obsAllow, approved,
                   stVars, entry, wfArgs, stakeCalls>>

\* lines 1097-1128: the target swap returned or threw; on return the deposit
\* of the quoted output is invoked
AfTargetDone ==
    /\ wf.pc = "af_main"
    /\ IF wf.use1inch THEN OneInchReturned ELSE SwapReturned
    /\ LET pc == IF wf.use1inch THEN oipc[W] ELSE swpc[W]
           res == IF wf.use1inch THEN oiRes[W] ELSE swRes[W]
       IN  /\ IF wf.use1inch
              THEN oipc' = [oipc EXCEPT ![W] = "idle"] /\ UNCHANGED swpc
              ELSE swpc' = [swpc EXCEPT ![W] = "idle"] /\ UNCHANGED oipc
           /\ IF pc = "thrown"
              THEN /\ Finish(FailGeneric)
                   /\ stages' = Append(stages, "target-swap:failed")
                   /\ UNCHANGED <<stVars, stakeCalls>>
              ELSE /\ wf' = [wf EXCEPT !.pc = "af_stake", !.mainRes = res]
                   /\ stages' = stages \o <<"target-swap:ok", "deposit">>
                   /\ CallStake(wfArgs.to, wf.mainQuote)
                   /\ UNCHANGED result
    /\ UNCHANGED <<qVars, cfgVars, mcpVars, plVars, slVars, chainVars, txlog, oiArgs, oiRes, swArgs, swQuote,
                   swRes, obsAllow, approved, entry, wfArgs>>

\* the deposit's exception leaves the workflow uncaught
AfDepositDoneRethrows ==
    /\ wf.pc = "af_stake"
    /\ StakeReturned
    /\ stpc' = "idle"
    /\ IF stpc = "thrown"
       THEN /\ Finish(Thrown)
            /\ stages' = Append(stages, "deposit:failed")
       ELSE /\ Finish([NoResult EXCEPT !.status = "ok",
                                       !.ethSwap = wf.fundRes.kind,
                                       !.mainSwap = wf.mainRes.kind,
                                       !.stake = stRes.kind])
            /\ stages' = Append(stages, "deposit:ok")
    /\ UNCHANGED <<qVars, cfgVars, mcpVars, plVars, slVars, chainVars, txlog, oiVars, swVars, obsAllow, approved,
                   stArgs, stRes, entry, wfArgs, stakeCalls>>

\* lines 1124-1150: the deposit returned or threw
AfDepositDone ==
    /\ wf.pc = "af_stake"
    /\ StakeReturned
    /\ stpc' = "idle"
    /\ IF stpc = "thrown"
       THEN /\ Finish(FailGeneric)
            /\ stages' = Append(stages, "deposit:failed")
       ELSE /\ Finish([NoResult EXCEPT !.status = "ok",
                                       !.ethSwap = wf.fundRes.kind,
                                       !.mainSwap = wf.mainRes.kind,
                                       !.stake = stRes.kind])
            /\ stages' = Append(stages, "deposit:ok")
    /\ UNCHANGED <<qVars, cfgVars, mcpVars, plVars, slVars, chainVars, txlog, oiVars, swVars, obsAllow, approved,
                   stArgs, stRes, entry, wfArgs, stakeCalls>>

AutoFundingStep ==
    \/ smartStakeWithAutoFunding \/ AfEstimate \/ AfFundingSwap \/ AfFundingDone
    \/ AfConfirm \/ AfTargetSwap \/ AfTargetDone \/ AfDepositDone

\* the balance test with > for >=: holding exactly the amount counts as a
\* shortfall
autoStakeWithBestAPYStrict ==
    /\ entry = "autoStakeWithBestAPY"
    /\ wf.pc = "start"
    /\ \/ /\ Finish(Thrown)
          /\ UNCHANGED <<stVars, stakeCalls, stages>>
       \/ IF chainBal[wfArgs.to] > wfArgs.amount
          THEN /\ wf' = [wf EXCEPT !.pc = "as_stake", !.snapshot = chainBal]
               /\ CallStake(wfArgs.to, wfArgs.amount)
               /\ stages' = Append(stages, "deposit")
               /\ UNCHANGED result
          ELSE /\ wf' = [wf EXCEPT !.pc = "as_plan", !.snapshot = chainBal]
               /\ UNCHANGED <<stVars, stakeCalls, stages, result>>
    /\ UNCHANGED <<qVars, cfgVars, mcpVars, plVars, slVars, chainVars, txlog, oiVars, swVars, obsAllow, approved,
                   entry, wfArgs>>

\* SwapService.autoStakeWithBestAPY, lines 730-753: the balance snapshot; with
\* enough of the target asset the deposit is invoked directly
autoStakeWithBestAPY ==
    /\ entry = "autoStakeWithBestAPY"
    /\ wf.pc = "start"
    /\ \/ /\ Finish(Thrown)
          /\ UNCHANGED <<stVars, stakeCalls, stages>>
       \/ IF chainBal[wfArgs.to] >= wfArgs.amount
          THEN /\ wf' = [wf EXCEPT !.pc = "as_stake", !.snapshot = chainBal]
               /\ CallStake(wfArgs.to, wfArgs.amount)
               /\ stages' = Append(stages, "deposit")
               /\ UNCHANGED result
          ELSE /\ wf' = [wf EXCEPT !.pc = "as_plan", !.snapshot = chainBal]
               /\ UNCHANGED <<stVars, stakeCalls, stages, result>>
    /\ UNCHANGED <<qVars, cfgVars, mcpVars, plVars, slVars, chainVars, txlog, oiVars, swVars, obsAllow, approved,
                   entry, wfArgs>>

\* lines 765-767: the priority tokens, then every other token of the snapshot
\* but the target
priorityTokens == {"ETH", "USDC", "USDT", "DAI", "USDbC"}
tokensToCheck(target) ==
    (priorityTokens \cap Tokens) \cup ((Tokens \ priorityTokens) \ {target})

\* lines 755-832: the search for a source token, then the funding swap.  The
\* amount chosen is additionalNeeded / rate * 1.01 for a rate the quoter alone
\* decides, accepted only when the balance covers it.  Without a source the
\* exception thrown carries the balances in its message (lines 815-819).
AsFundingSwap ==
    /\ wf.pc = "as_plan"
    /\ \/ /\ Finish([Thrown EXCEPT !.reason = "no-source",
                                   !.balances = wf.snapshot])
          /\ UNCHANGED <<swVars, stages>>
       \/ \E t \in tokensToCheck(wfArgs.to) :
            /\ wf.snapshot[t] # 0
            /\ \E requiredSourceAmount \in Amounts :
                 LET src == [from |-> t, to |-> wfArgs.to,
                             amount |-> requiredSourceAmount]
                 IN  /\ wf.snapshot[t] >= requiredSourceAmount
                     /\ wf' = [wf EXCEPT !.pc = "as_fund", !.plan = src,
                                         !.source = t]
                     /\ CallSwap(src)
            /\ stages' = Append(stages, "funding-swap")
            /\ UNCHANGED result
    /\ UNCHANGED <<qVars, cfgVars, mcpVars, plVars, slVars, chainVars, txlog, oiVars, obsAllow, approved,
                   stVars, entry, wfArgs, stakeCalls>>

\* lines 826-847: the funding swap returned or threw
AsFundingDone ==
    /\ wf.pc = "as_fund"
    /\ SwapReturned
    /\ swpc' = [swpc EXCEPT ![W] = "idle"]
    /\ IF swpc[W] = "thrown"
       THEN /\ Finish(Thrown)
            /\ stages' = Append(stages, "funding-swap:failed")
       ELSE /\ stages' = Append(stages, "funding-swap:ok")
            /\ IF swRes[W].kind = "sim"
               THEN Finish([NoResult EXCEPT !.status = "sim"])
               ELSE /\ wf' = [wf EXCEPT !.pc = "as_confirm", !.fundRes = swRes[W]]
                    /\ UNCHANGED result
    /\ UNCHANGED <<qVars, cfgVars, mcpVars, plVars, slVars, chainVars, txlog, oiVars, swArgs, swQuote, swRes,
                   obsAllow, approved, stVars, entry, wfArgs, stakeCalls>>

\* lines 849-863: waitForTransaction, then the deposit of the target amount
AsDeposit ==
    /\ wf.pc = "as_confirm"
    /\ \/ /\ wf' = [wf EXCEPT !.pc = "as_stake", !.confirmed = TRUE]
          /\ CallStake(wfArgs.to, wfArgs.amount)
          /\ stages' = Append(stages, "deposit")
          /\ UNCHANGED result
       \/ /\ Finish(Thrown)
          /\ UNCHANGED <<stVars, stakeCalls, stages>>
    /\ UNCHANGED <<qVars, cfgVars, mcpVars, plVars, slVars, chainVars, txlog, oiVars, swVars, obsAllow, approved,
                   entry, wfArgs>>

\* lines 742-746 and 859-874: the deposit returned or threw
AsDepositDone ==
    /\ wf.pc = "as_stake"
    /\ StakeReturned
    /\ stpc' = "idle"
    /\ IF stpc = "thrown"
       THEN /\ Finish(Thrown)
            /\ stages' = Append(stages, "deposit:failed")
       ELSE /\ Finish([NoResult EXCEPT !.status = "ok",
                                       !.ethSwap = wf.fundRes.kind,
                                       !.stake = stRes.kind])
            /\ stages' = Append(stages, "deposit:ok")
    /\ UNCHANGED <<qVars, cfgVars, mcpVars, plVars, slVars, chainVars, txlog, oiVars, swVars, obsAllow, approved,
                   stArgs, stRes, entry, wfArgs, stakeCalls>>

AutoStakeStep ==
    \/ autoStakeWithBestAPY \/ AsFundingSwap \/ AsFundingDone \/ AsDeposit
    \/ AsDepositDone

\* SmartDepositService.findBestSourceAsset, lines 171-176: 0.01 ETH is kept
\* for gas
EthGasReserve == 1
availableBalance(bal, asset) ==
    IF asset = "ETH"
    THEN (IF bal[asset] > EthGasReserve THEN bal[asset] - EthGasReserve ELSE 0)
    ELSE bal[asset]

\* SmartDepositService.smartDeposit, lines 49-73: the configuration check, the
\* balance snapshot; with enough of the target asset the deposit is direct
smartDeposit ==
    /\ entry = "smartDeposit"
    /\ wf.pc = "start"
    /\ IF ~AUTO_EXECUTE \/ ~wallet
       THEN /\ Finish(FailGeneric)
            /\ UNCHANGED <<stVars, stakeCalls, stages>>
       ELSE \/ /\ Finish(FailGeneric)
               /\ UNCHANGED <<stVars, stakeCalls, stages>>
            \/ IF chainBal[wfArgs.to] >= wfArgs.amount
               THEN /\ wf' = [wf EXCEPT !.pc = "sd_deposit", !.snapshot = chainBal]
                    /\ CallStake(wfArgs.to, wfArgs.amount)
                    /\ stages' = Append(stages, "deposit")
                    /\ UNCHANGED result
               ELSE /\ wf' = [wf EXCEPT !.pc = "sd_find", !.snapshot = chainBal]
                    /\ UNCHANGED <<stVars, stakeCalls, stages, result>>
    /\ UNCHANGED <<qVars, cfgVars, mcpVars, plVars, slVars, chainVars, txlog, oiVars, swVars, obsAllow, approved,
                   entry, wfArgs>>

\* lines 75-98, findBestSourceAsset and executeSmartSwap: a source whose
\* available balance covers the quoted amountIn (the target amount), swapped
\* as WETH when it is ETH.  Without a source the result is { success: false,
\* error: 'Insufficient balance in any supported asset' } (lines 82-87).
SdFundingSwap ==
    /\ wf.pc = "sd_find"
    /\ \/ /\ Finish([FailGeneric EXCEPT !.reason = "no-source"])
          /\ UNCHANGED <<swVars, stages>>
       \/ \E t \in Tokens \ {wfArgs.to} :
            /\ wf.snapshot[t] > 0
            /\ availableBalance(wf.snapshot, t) > 0
            /\ wfArgs.amount <= availableBalance(wf.snapshot, t)
            /\ LET src == [from |-> IF t = "ETH" THEN "WETH" ELSE t,
                           to |-> wfArgs.to, amount |-> wfArgs.amount]
               IN  /\ wf' = [wf EXCEPT !.pc = "sd_fund", !.plan = src,
                                       !.source = t]
                   /\ CallSwap(src)
            /\ stages' = Append(stages, "funding-swap")
            /\ UNCHANGED result
    /\ UNCHANGED <<qVars, cfgVars, mcpVars, plVars, slVars, chainVars, txlog, oiVars, obsAllow, approved,
                   stVars, entry, wfArgs, stakeCalls>>

\* lines 100-112: the swap returned or threw (executeSmartSwap turns a throw
\* into success: false); on success the deposit of the target amount
SdFundingDone ==
    /\ wf.pc = "sd_fund"
    /\ SwapReturned
    /\ swpc' = [swpc EXCEPT ![W] = "idle"]
    /\ IF swpc[W] = "thrown"
       THEN /\ Finish([FailGeneric EXCEPT !.stage = "funding-swap"])
            /\ stages' = Append(stages, "funding-swap:failed")
            /\ UNCHANGED <<stVars, stakeCalls>>
       ELSE /\ wf' = [wf EXCEPT !.pc = "sd_deposit", !.fundRes = swRes[W]]
            /\ stages' = stages \o <<"funding-swap:ok", "deposit">>
            /\ CallStake(wfArgs.to, wfArgs.amount)
            /\ UNCHANGED result
    /\ UNCHANGED <<qVars, cfgVars, mcpVars, plVars, slVars, chainVars, txlog, oiVars, swArgs, swQuote, swRes,
                   obsAllow, approved, entry, wfArgs>>

\* directDeposit, lines 251-275, and smartDeposit, lines 114-118: the stake
\* result or its error becomes a record, joined with the swap details
SdDepositDone ==
    /\ wf.pc = "sd_deposit"
    /\ StakeReturned
    /\ stpc' = "idle"
    /\ Finish([NoResult EXCEPT !.status = IF stpc = "thrown" THEN "fail" ELSE "ok",
                               !.ethSwap = wf.fundRes.kind,
                               !.stake = stRes.kind])
    /\ stages' = Append(stages, IF stpc = "thrown" THEN "deposit:failed" ELSE "deposit:ok")
    /\ UNCHANGED <<qVars, cfgVars, mcpVars, plVars, slVars, chainVars, txlog, oiVars, swVars, obsAllow, approved,
                   stArgs, stRes, entry, wfArgs, stakeCalls>>

SmartDepositStep ==
    \/ smartDeposit \/ SdFundingSwap \/ SdFundingDone \/ SdDepositDone

\* ------------------------------------------------ entry points called alone
\* (the MCP tools swap_execute, 1inch_swap and aave_stake)

EntrySwap ==
    /\ entry = "swap"
    /\ wf.pc = "start"
    /\ CallSwap(wfArgs)
    /\ wf' = [wf EXCEPT !.pc = "call"]
    /\ UNCHANGED <<qVars, cfgVars, mcpVars, plVars, slVars, chainVars, txlog, oiVars, obsAllow, approved, stVars,
                   entry, wfArgs, stakeCalls, stages, result>>

EntryExecuteSwap ==
    /\ entry = "executeSwap"
    /\ wf.pc = "start"
    /\ CallOneInch(wfArgs)
    /\ wf' = [wf EXCEPT !.pc = "call"]
    /\ UNCHANGED <<qVars, cfgVars, mcpVars, plVars, slVars, chainVars, txlog, swVars, obsAllow, approved, stVars,
                   entry, wfArgs, stakeCalls, stages, result>>

EntryStake ==
    /\ entry = "stake"
    /\ wf.pc = "start"
    /\ CallStake(wfArgs.to, wfArgs.amount)
    /\ wf' = [wf EXCEPT !.pc = "call"]
    /\ UNCHANGED <<qVars, cfgVars, mcpVars, plVars, slVars, chainVars, txlog, oiVars, swVars, obsAllow, approved,
                   entry, wfArgs, stages, result>>

ResultOf(pc, res) ==
    IF pc = "thrown" THEN Thrown ELSE [NoResult EXCEPT !.status = res.kind]

EntryDone ==
    /\ wf.pc = "call"
    /\ \/ /\ entry = "swap" /\ SwapReturned
          /\ Finish([ResultOf(swpc[W], swRes[W]) EXCEPT !.mainSwap = swRes[W].kind])
       \/ /\ entry = "executeSwap" /\ OneInchReturned
          /\ Finish([ResultOf(oipc[W], oiRes[W]) EXCEPT !.mainSwap = oiRes[W].kind])
       \/ /\ entry = "stake" /\ StakeReturned
          /\ Finish([ResultOf(stpc, stRes) EXCEPT !.stake = stRes.kind])
    /\ UNCHANGED <<qVars, cfgVars, mcpVars, plVars, slVars, chainVars, txlog, oiVars, swVars, obsAllow, approved,
                   stVars, entry, wfArgs, stakeCalls, stages>>

EntryStep == EntrySwap \/ EntryExecuteSwap \/ EntryStake \/ EntryDone

\* --------------------------------------- McpService: the swap_execute tool
\* mcp.module.ts lines 748-765: the balances are read; a shortfall of the
\* source token hands the request to smartStakeWithAutoFunding, whose result
\* is the tool's; otherwise swap(args) is called.  A failing balance read is
\* caught at line 766, which calls swap(args).
swap_execute ==
    /\ entry = "swap_execute"
    /\ wf.pc = "start"
    /\ \/ /\ chainBal[wfArgs.from] < wfArgs.amount
          /\ entry' = "smartStakeWithAutoFunding"
          /\ UNCHANGED <<wf, swVars>>
       \/ /\ chainBal[wfArgs.from] >= wfArgs.amount
          /\ CallSwap(wfArgs)
          /\ wf' = [wf EXCEPT !.pc = "tool_swap"]
          /\ UNCHANGED entry
       \/ /\ CallSwap(wfArgs)
          /\ wf' = [wf EXCEPT !.pc = "tool_retry"]
          /\ UNCHANGED entry
    /\ UNCHANGED <<qVars, cfgVars, mcpVars, plVars, slVars, chainVars, txlog, oiVars, obsAllow, approved,
                   stVars, wfArgs, stakeCalls, stages, result>>

\* lines 762-769: the result of swap(args) is the tool's; its exception is
\* caught and swap(args) is called again
ToolSwapDone ==
    /\ wf.pc = "tool_swap"
    /\ SwapReturned
    /\ IF swpc[W] = "thrown"
       THEN /\ CallSwap(wfArgs)
            /\ wf' = [wf EXCEPT !.pc = "tool_retry"]
            /\ UNCHANGED result
       ELSE /\ Finish([ResultOf(swpc[W], swRes[W]) EXCEPT !.mainSwap = swRes[W].kind])
            /\ UNCHANGED swVars
    /\ UNCHANGED <<qVars, cfgVars, mcpVars, plVars, slVars, chainVars, txlog, oiVars, obsAllow, approved,
                   stVars, entry, wfArgs, stakeCalls, stages>>

\* lines 766-770: the second call's result is the tool's and its exception
\* leaves the handler
ToolRetryDone ==
    /\ wf.pc = "tool_retry"
    /\ SwapReturned
    /\ Finish([ResultOf(swpc[W], swRes[W]) EXCEPT !.mainSwap = swRes[W].kind])
    /\ UNCHANGED <<qVars, cfgVars, mcpVars, plVars, slVars, chainVars, txlog, oiVars, swVars, obsAllow, approved,
                   stVars, entry, wfArgs, stakeCalls, stages>>

ToolStep == swap_execute \/ ToolSwapDone \/ ToolRetryDone

\* ------------------------------------------------ McpService.handleRequest
\* The request is held with what decides its path: the method, whether its
\* params have the shape the handler destructures, and the tool's name.  A
\* response is a record whose result field says that a result is present and
\* whose error field is the error code, 0 when no error is present.

Methods == {"initialize", "tools/list", "tools/call", "completion/complete"}

ToolNames ==
    {"aave_stake", "aave_withdraw", "aave_borrow", "aave_repay",
     "aave_get_reserves", "aave_get_strategies", "aave_get_user_positions",
     "aave_get_user_account", "swap_quote", "swap_execute", "smart_stake",
     "smart_deposit_auto", "prepare_aave_supply", "prepare_swap",
     "prepare_typed_data", "simulate_transaction", "broadcast_transaction",
     "get_balance", "get_all_balances", "get_gas_price",
     "smart_stake_auto_fund", "oneinch_quote", "oneinch_swap"}

\* the tools whose case catches the first attempt's exception and tries again
RetryTools == {"aave_stake", "swap_execute"}

RequestIds == {1, 2, 7}

MethodNotFound == -32601
ToolFailed == -32000
InternalError == -32603

NoRequest == [pc |-> "idle", id |-> 0, method |-> "-", params |-> FALSE,
              tool |-> "-", out |-> <<>>]

McpResult == [id |-> rq.id, result |-> TRUE, error |-> 0]

McpError(code) == [id |-> rq.id, result |-> FALSE, error |-> code]

Respond(r) == rq' = [rq EXCEPT !.pc = "responded", !.out = Append(@, r)]

\* lines 593-632: the dispatch on the method.  handleToolCall destructures
\* request.params before its try (line 665) and handleCompletion reads
\* request.params.messages[0] (line 898): their exception is caught here.
handleRequest ==
    /\ rq.pc = "recv"
    /\ CASE rq.method \in {"initialize", "tools/list"} -> Respond(McpResult)
         [] rq.method = "completion/complete" ->
                IF rq.params THEN Respond(McpResult)
                ELSE Respond(McpError(InternalError))
         [] rq.method = "tools/call" ->
                IF rq.params THEN rq' = [rq EXCEPT !.pc = "tool"]
                ELSE Respond(McpError(InternalError))
         [] OTHER -> Respond(McpError(MethodNotFound))
    /\ UNCHANGED <<cfgVars, chainVars, txlog, oiVars, swVars, obsAllow, approved, stVars,
                   wfVars, qVars, plVars, slVars>>

\* an unknown tool's exception reaches handleRequest
handleToolCallUncaught ==
    /\ rq.pc = "tool"
    /\ IF rq.tool \in ToolNames
       THEN rq' = [rq EXCEPT !.pc = "running"]
       ELSE Respond(McpError(InternalError))
    /\ UNCHANGED <<cfgVars, chainVars, txlog, oiVars, swVars, obsAllow, approved, stVars,
                   wfVars, qVars, plVars, slVars>>

\* lines 664-671, 871-872, 886-895: the switch on the tool's name inside the
\* try; the default case throws and the catch answers
handleToolCall ==
    /\ rq.pc = "tool"
    /\ IF rq.tool \in ToolNames
       THEN rq' = [rq EXCEPT !.pc = "running"]
       ELSE Respond(McpError(ToolFailed))
    /\ UNCHANGED <<cfgVars, chainVars, txlog, oiVars, swVars, obsAllow, approved, stVars,
                   wfVars, qVars, plVars, slVars>>

\* lines 672-885: the tool's service call returns and its result is
\* serialised, or it throws; aave_stake and swap_execute catch the exception
\* and call a second service (lines 676-711, 766-769), aave_stake only for
\* an 'Insufficient' error
ToolReturned ==
    /\ rq.pc = "running"
    /\ \/ Respond(McpResult)
       \/ Respond(McpError(ToolFailed)) /\ rq.tool # "swap_execute"
       \/ rq.tool \in RetryTools /\ rq' = [rq EXCEPT !.pc = "fallback"]
    /\ UNCHANGED <<cfgVars, chainVars, txlog, oiVars, swVars, obsAllow, approved, stVars,
                   wfVars, qVars, plVars, slVars>>

\* the second service call returns or throws
ToolFallback ==
    /\ rq.pc = "fallback"
    /\ \/ Respond(McpResult)
       \/ Respond(McpError(ToolFailed))
    /\ UNCHANGED <<cfgVars, chainVars, txlog, oiVars, swVars, obsAllow, approved, stVars,
                   wfVars, qVars, plVars, slVars>>

McpStep == handleRequest \/ handleToolCall \/ ToolReturned \/ ToolFallback

\* ------------------------------------------------ SwapService.getQuote

\* uniswap.feeTiers and its default, in hundredths of a basis point
feeTiers == <<100, 500, 3000, 10000>>

\* getMultiHopQuote, line 261
intermediateTokens == <<"WETH", "DAI", "USDC">>

\* the symbols of the "tokens" configuration that the model uses
SupportedTokens == {"WETH", "USDC", "DAI", "GHO"}
QuoteTokens == SupportedTokens \cup {"ETH", "XYZ"}

NotAsked == -2
Failed == -1

\* getQuote, lines 117-123: ETH is quoted as WETH on the AMM
QuoteSymbol(t) == IF IsETH(t) THEN "WETH" ELSE t

Abs(x) == IF x < 0 THEN 0 - x ELSE x

\* the two values of a floating point impact that are no number
NaN == -1
Infinity == -2

\* getDirectQuote, lines 237-240: |1 - out / in| * 100; the division of 0 by 0
\* is NaN and of a positive output by 0 is Infinity
priceImpact(in, out) ==
    IF in = 0 THEN (IF out = 0 THEN NaN ELSE Infinity)
    ELSE (Abs(in - out) * 100) \div in

\* the sum of two impacts as the floating point addition gives it
AddImpact(a, b) ==
    IF a = NaN \/ b = NaN THEN NaN
    ELSE IF a = Infinity \/ b = Infinity THEN Infinity
    ELSE a + b

\* no error thrown
NoError == [kind |-> "none", from |-> "-", to |-> "-"]

\* what decimals() of the token contract answers for the configured tokens
Decimals(sym) == IF sym = "USDC" THEN 6 ELSE 18

\* preloadTokenDecimals, lines 68-84: the table of known decimals
knownDecimals(sym) == IF sym = "USDC" THEN 6 ELSE 18

\* getTokenDecimals, lines 153-190: the decimals on a cache miss; when
\* decimals() fails the symbol decides, 6 for USDC and 18 for the others, and
\* when symbol() fails as well the default of 18 is taken
MissedDecimals(sym) ==
    CASE rpc = "none" -> Decimals(sym)
      [] rpc = "decimals" -> (IF sym = "USDC" THEN 6 ELSE 18)
      [] OTHER -> 18

RECURSIVE Pow10(_)
Pow10(n) == IF n = 0 THEN 1 ELSE 10 * Pow10(n - 1)

\* ethers.utils.formatUnits: the decimal string of v base units with d
\* decimals; it denotes v / 10^d and is held as the pair
formatUnits(v, d) == [units |-> v, decimals |-> d]

\* ethers.utils.parseUnits: the base units with d decimals that the decimal
\* string s denotes; a string with more fractional digits than d is refused
parseUnits(s, d) ==
    IF s.decimals <= d THEN s.units * Pow10(d - s.decimals)
    ELSE IF s.units % Pow10(s.decimals - d) = 0
         THEN s.units \div Pow10(s.decimals - d)
         ELSE Failed

\* parseFloat(a) > parseFloat(b) for two decimal strings
FloatGt(a, b) ==
    IF a.decimals = b.decimals THEN a.units > b.units
    ELSE IF a.decimals < b.decimals
         THEN a.units * Pow10(b.decimals - a.decimals) > b.units
         ELSE a.units > b.units * Pow10(a.decimals - b.decimals)

\* the unit in which the model holds a reported fee: a fee of x is held as
\* x * FeeScale
FeeScale == 10000

\* getDirectQuote, line 244: bestFee / 10000
ReportedFee(bestFee) == (bestFee * FeeScale) \div 10000

\* a fee tier, given in hundredths of a basis point, in basis points
TierBps(tier) == ((tier * FeeScale) \div 100)

NoQuote == [kind |-> "none", amountOut |-> formatUnits(0, 0), fee |-> 0,
            priceImpact |-> 0, route |-> <<>>]
NoDirect == [stage |-> "-", from |-> "-", to |-> "-", amountIn |-> 0,
             toDecimals |-> 0, fromSym |-> "-", toSym |-> "-", i |-> 1,
             bestQuote |-> Failed, bestFee |-> 0]
NoMultiHop == [idx |-> 1, toDecimals |-> 0, firstHop |-> NoQuote,
               secondHop |-> NoQuote, bestMultiHopQuote |-> NoQuote,
               bestIntermediateToken |-> ""]

\* the decimals cache before any lookup
NoDecimals == [t \in SupportedTokens |-> NotAsked]

\* getTokenDecimals, lines 148-166: the decimals of the tokens ts are in the
\* cache after the lookup
getTokenDecimals(cache, ts) ==
    [t \in SupportedTokens |->
        IF t \in ts /\ cache[t] = NotAsked THEN MissedDecimals(t) ELSE cache[t]]

\* no outcome of a first invocation
NoOutcome == [pc |-> "-", res |-> NoQuote, err |-> NoError, log |-> <<>>]

\* the answers a collaborator whose state is held gives
MockOutputs == {MaxAmt, Failed}

QuoteCall(kind, stage, from, to, fee, amountIn) ==
    [kind |-> kind, stage |-> stage, from |-> from, to |-> to, fee |-> fee,
     amountIn |-> amountIn]

\* a call as the collaborator sees it
CallKey(c) == [c EXCEPT !.stage = "-"]

\* the collaborator answers the call c with out: a collaborator whose state is
\* held answers a call it has answered before in the same way
Answers(c, out) ==
    IF ~mock THEN answers' = answers
    ELSE IF \E e \in answers : e.call = CallKey(c)
         THEN /\ \E e \in answers : e.call = CallKey(c) /\ e.out = out
              /\ answers' = answers
         ELSE /\ out \in MockOutputs
              /\ answers' = answers \cup {[call |-> CallKey(c), out |-> out]}

\* OneInchService.getQuote, lines 64-77 and 97-99: the decimals the 1inch
\* quote looks up, of the source before the request and of the destination
\* after its answer; the native asset and a symbol without address have none
OneInchSupported ==
    \A t \in {qArgs.from, qArgs.to} : IsETH(t) \/ t \in SupportedTokens

OneInchLookups(answered) ==
    IF ~OneInchSupported THEN {}
    ELSE (IF IsETH(qArgs.from) THEN {} ELSE {qArgs.from})
         \cup (IF answered /\ ~IsETH(qArgs.to) THEN {qArgs.to} ELSE {})

\* OneInchService.getQuote, lines 97-101: the decimals of the destination
OneInchDecimals(cache) == IF IsETH(qArgs.to) THEN 18 ELSE cache[qArgs.to]

\* the call of getDirectQuote with its arguments
StartDirect(stage, from, to, amountIn, toDecimals, fromSym, toSym) ==
    [NoDirect EXCEPT !.stage = stage, !.from = from, !.to = to,
                     !.amountIn = amountIn, !.toDecimals = toDecimals,
                     !.fromSym = fromSym, !.toSym = toSym]

\* getDirectQuote, lines 228-247: null when no tier quoted, else the quote
DirectResult(d) ==
    IF d.bestQuote = Failed THEN NoQuote
    ELSE [kind |-> "direct", amountOut |-> formatUnits(d.bestQuote, d.toDecimals),
          fee |-> ReportedFee(d.bestFee),
          priceImpact |-> priceImpact(d.amountIn, d.bestQuote),
          route |-> <<d.fromSym, d.toSym>>]

\* the 1inch fee reported, 0.1, in the unit FeeScale
OneInchFee == 1000

\* the aggregator's quote is logged but the search goes on to the AMM
getQuoteNoEarlyReturn ==
    /\ qpc = "start"
    /\ qlog' = Append(qlog, QuoteCall("aggregator", "aggregator", qArgs.from,
                                      qArgs.to, 0, qArgs.amount))
    /\ \E out \in Amounts \cup {Failed} :
          /\ Answers(Last(qlog'), out)
          /\ aggOut' = out
          /\ decimalsCache' = getTokenDecimals(decimalsCache,
                                               OneInchLookups(out # Failed))
    /\ qpc' = "resolve"
    /\ UNCHANGED <<cfgVars, mcpVars, plVars, slVars, chainVars, txlog, oiVars, swVars, obsAllow, approved,
                   stVars, wfVars, qArgs, dq, directFails, directOuts, tried, qerr,
                   mh, qres, mock, rpc,
                   preloaded, run, firstRun>>

\* getQuote, lines 84-114: the aggregator is asked first; its quote is returned
getQuote ==
    /\ qpc = "start"
    /\ qlog' = Append(qlog, QuoteCall("aggregator", "aggregator", qArgs.from,
                                      qArgs.to, 0, qArgs.amount))
    /\ \/ \E out \in Amounts :
            /\ OneInchSupported
            /\ Answers(Last(qlog'), out)
            /\ aggOut' = out
            /\ decimalsCache' = getTokenDecimals(decimalsCache,
                                                 OneInchLookups(TRUE))
            /\ qres' = [kind |-> "1inch",
                        amountOut |-> formatUnits(out,
                                                  OneInchDecimals(decimalsCache')),
                        fee |-> OneInchFee,
                        priceImpact |-> 0, route |-> <<qArgs.from, qArgs.to>>]
            /\ qpc' = "ret"
       \/ /\ Answers(Last(qlog'), Failed)
          /\ aggOut' = Failed
          /\ decimalsCache' = getTokenDecimals(decimalsCache,
                                               OneInchLookups(FALSE))
          /\ qpc' = "resolve"
          /\ UNCHANGED qres
    /\ UNCHANGED <<cfgVars, mcpVars, plVars, slVars, chainVars, txlog, oiVars, swVars, obsAllow, approved,
                   stVars, wfVars, qArgs, dq, directFails, directOuts, tried, qerr,
                   mh, mock, rpc,
                   preloaded, run, firstRun>>

\* getQuote, lines 116-156: the token addresses and decimals, then the direct
\* search is started; a symbol without an address is refused
QuoteResolve ==
    /\ qpc = "resolve"
    /\ IF \/ QuoteSymbol(qArgs.from) \notin SupportedTokens
          \/ QuoteSymbol(qArgs.to) \notin SupportedTokens
       THEN /\ qpc' = "thrown"
            /\ qerr' = [kind |-> "unsupported", from |-> QuoteSymbol(qArgs.from),
                        to |-> QuoteSymbol(qArgs.to)]
            /\ UNCHANGED <<dq, decimalsCache>>
       ELSE /\ decimalsCache' =
                  getTokenDecimals(decimalsCache,
                      (IF IsETH(qArgs.from) THEN {} ELSE {qArgs.from})
                          \cup {QuoteSymbol(qArgs.to)})
            /\ dq' = StartDirect("direct", QuoteSymbol(qArgs.from),
                                 QuoteSymbol(qArgs.to), qArgs.amount,
                                 decimalsCache'[QuoteSymbol(qArgs.to)],
                                 qArgs.from, qArgs.to)
            /\ qpc' = "tiers"
            /\ UNCHANGED qerr
    /\ UNCHANGED <<cfgVars, mcpVars, plVars, slVars, chainVars, txlog, oiVars, swVars, obsAllow, approved,
                   stVars, wfVars, qArgs, qlog, aggOut, directFails, directOuts,
                   tried, mh, qres, mock, rpc,
                   preloaded, answers, run, firstRun>>

\* what a fee tier answered, kept for the direct route only
Answered(out) ==
    IF dq.stage = "direct" THEN Append(directOuts, out) ELSE directOuts

\* the least output is kept as the best
getDirectQuoteLeast ==
    /\ qpc = "tiers"
    /\ dq.i <= Len(feeTiers)
    /\ qlog' = Append(qlog, QuoteCall("quoter", dq.stage, dq.from, dq.to,
                                      feeTiers[dq.i], dq.amountIn))
    /\ \/ \E amountOut \in Amounts :
            /\ dq' = IF dq.bestQuote = Failed \/ amountOut < dq.bestQuote
                     THEN [dq EXCEPT !.i = @ + 1, !.bestQuote = amountOut,
                                     !.bestFee = feeTiers[dq.i]]
                     ELSE [dq EXCEPT !.i = @ + 1]
            /\ Answers(Last(qlog'), amountOut)
            /\ directOuts' = Answered(amountOut)
            /\ UNCHANGED directFails
       \/ /\ dq' = [dq EXCEPT !.i = @ + 1]
          /\ Answers(Last(qlog'), Failed)
          /\ directOuts' = Answered(Failed)
          /\ directFails' = IF dq.stage = "direct" THEN directFails + 1
                            ELSE directFails
    /\ UNCHANGED <<cfgVars, mcpVars, plVars, slVars, chainVars, txlog, oiVars, swVars, obsAllow, approved,
                   stVars, wfVars, qpc, qArgs, aggOut, tried, qerr, decimalsCache,
                   mh, qres, mock, rpc,
                   preloaded, run, firstRun>>

\* a tier that quotes as much as the best replaces it
getDirectQuoteLastOnTie ==
    /\ qpc = "tiers"
    /\ dq.i <= Len(feeTiers)
    /\ qlog' = Append(qlog, QuoteCall("quoter", dq.stage, dq.from, dq.to,
                                      feeTiers[dq.i], dq.amountIn))
    /\ \/ \E amountOut \in Amounts :
            /\ dq' = IF dq.bestQuote = Failed \/ amountOut >= dq.bestQuote
                     THEN [dq EXCEPT !.i = @ + 1, !.bestQuote = amountOut,
                                     !.bestFee = feeTiers[dq.i]]
                     ELSE [dq EXCEPT !.i = @ + 1]
            /\ Answers(Last(qlog'), amountOut)
            /\ directOuts' = Answered(amountOut)
            /\ UNCHANGED directFails
       \/ /\ dq' = [dq EXCEPT !.i = @ + 1]
          /\ Answers(Last(qlog'), Failed)
          /\ directOuts' = Answered(Failed)
          /\ directFails' = IF dq.stage = "direct" THEN directFails + 1
                            ELSE directFails
    /\ UNCHANGED <<cfgVars, mcpVars, plVars, slVars, chainVars, txlog, oiVars, swVars, obsAllow, approved,
                   stVars, wfVars, qpc, qArgs, aggOut, tried, qerr, decimalsCache,
                   mh, qres, mock, rpc,
                   preloaded, run, firstRun>>

\* a failing tier ends the search with nothing
getDirectQuoteAbortsOnFailure ==
    /\ qpc = "tiers"
    /\ dq.i <= Len(feeTiers)
    /\ qlog' = Append(qlog, QuoteCall("quoter", dq.stage, dq.from, dq.to,
                                      feeTiers[dq.i], dq.amountIn))
    /\ \/ \E amountOut \in Amounts :
            /\ dq' = IF dq.bestQuote = Failed \/ amountOut > dq.bestQuote
                     THEN [dq EXCEPT !.i = @ + 1, !.bestQuote = amountOut,
                                     !.bestFee = feeTiers[dq.i]]
                     ELSE [dq EXCEPT !.i = @ + 1]
            /\ Answers(Last(qlog'), amountOut)
            /\ directOuts' = Answered(amountOut)
            /\ UNCHANGED directFails
       \/ /\ dq' = [dq EXCEPT !.i = Len(feeTiers) + 1, !.bestQuote = Failed]
          /\ Answers(Last(qlog'), Failed)
          /\ directOuts' = Answered(Failed)
          /\ directFails' = IF dq.stage = "direct" THEN directFails + 1
                            ELSE directFails
    /\ UNCHANGED <<cfgVars, mcpVars, plVars, slVars, chainVars, txlog, oiVars, swVars, obsAllow, approved,
                   stVars, wfVars, qpc, qArgs, aggOut, tried, qerr, decimalsCache,
                   mh, qres, mock, rpc,
                   preloaded, run, firstRun>>

\* getDirectQuote, lines 203-226: one fee tier is quoted; a failing tier is
\* skipped, a quote replaces the best when there is none or it is greater
getDirectQuote ==
    /\ qpc = "tiers"
    /\ dq.i <= Len(feeTiers)
    /\ qlog' = Append(qlog, QuoteCall("quoter", dq.stage, dq.from, dq.to,
                                      feeTiers[dq.i], dq.amountIn))
    /\ \/ \E amountOut \in Amounts :
            /\ dq' = IF dq.bestQuote = Failed \/ amountOut > dq.bestQuote
                     THEN [dq EXCEPT !.i = @ + 1, !.bestQuote = amountOut,
                                     !.bestFee = feeTiers[dq.i]]
                     ELSE [dq EXCEPT !.i = @ + 1]
            /\ Answers(Last(qlog'), amountOut)
            /\ directOuts' = Answered(amountOut)
            /\ UNCHANGED directFails
       \/ /\ dq' = [dq EXCEPT !.i = @ + 1]
          /\ Answers(Last(qlog'), Failed)
          /\ directOuts' = Answered(Failed)
          /\ directFails' = IF dq.stage = "direct" THEN directFails + 1
                            ELSE directFails
    /\ UNCHANGED <<cfgVars, mcpVars, plVars, slVars, chainVars, txlog, oiVars, swVars, obsAllow, approved,
                   stVars, wfVars, qpc, qArgs, aggOut, tried, qerr, decimalsCache,
                   mh, qres, mock, rpc,
                   preloaded, run, firstRun>>

\* getQuote, lines 146-160: the direct quote is returned; without one the
\* two-hop search is started
DirectQuoteDone ==
    /\ qpc = "tiers"
    /\ dq.stage = "direct"
    /\ dq.i > Len(feeTiers)
    /\ IF DirectResult(dq) # NoQuote
       THEN /\ qres' = DirectResult(dq)
            /\ qpc' = "ret"
            /\ UNCHANGED mh
       ELSE /\ mh' = [NoMultiHop EXCEPT !.toDecimals = dq.toDecimals]
            /\ qpc' = "intermediate"
            /\ UNCHANGED qres
    /\ dq' = NoDirect
    /\ UNCHANGED <<cfgVars, mcpVars, plVars, slVars, chainVars, txlog, oiVars, swVars, obsAllow, approved,
                   stVars, wfVars, qArgs, qlog, aggOut, directFails, directOuts,
                   tried, qerr, decimalsCache, mock, rpc,
                   preloaded, answers, run, firstRun>>

\* what the legs of an intermediate gave: the first hop's output, the input
\* the second hop was quoted with and the output of the route
Tried(via, first, secondIn, out) ==
    [via |-> via, first |-> first, secondIn |-> secondIn, out |-> out]

\* without a two-hop route the empty quote is returned and nothing thrown
getMultiHopQuoteReturnsNull ==
    /\ qpc = "intermediate"
    /\ IF mh.idx > Len(intermediateTokens)
       THEN /\ IF mh.bestMultiHopQuote # NoQuote
               THEN qres' = mh.bestMultiHopQuote /\ qpc' = "ret" /\ UNCHANGED qerr
               ELSE qpc' = "ret" /\ UNCHANGED <<qres, qerr>>
            /\ UNCHANGED <<dq, mh, decimalsCache>>
       ELSE LET intermediate == intermediateTokens[mh.idx]
            IN  IF intermediate = qArgs.from \/ intermediate = qArgs.to
                THEN /\ mh' = [mh EXCEPT !.idx = @ + 1]
                     /\ UNCHANGED <<dq, qpc, qres, qerr, decimalsCache>>
                ELSE /\ decimalsCache' =
                           getTokenDecimals(decimalsCache, {intermediate})
                     /\ dq' = StartDirect("firstHop", QuoteSymbol(qArgs.from),
                                          intermediate, qArgs.amount,
                                          decimalsCache'[intermediate],
                                          qArgs.from, intermediate)
                     /\ mh' = [mh EXCEPT !.firstHop = NoQuote,
                                         !.secondHop = NoQuote]
                     /\ qpc' = "tiers"
                     /\ UNCHANGED <<qres, qerr>>
    /\ UNCHANGED <<cfgVars, mcpVars, plVars, slVars, chainVars, txlog, oiVars, swVars, obsAllow, approved,
                   stVars, wfVars, qArgs, qlog, aggOut, directFails, directOuts,
                   tried, mock, rpc,
                   preloaded, answers, run, firstRun>>

\* getMultiHopQuote, lines 265-291 and 337-344, and getQuote, lines 173-179:
\* the next intermediate; one equal to fromToken or toToken is skipped; after
\* the last the best two-hop quote is returned, or the no-route error thrown
getMultiHopQuote ==
    /\ qpc = "intermediate"
    /\ IF mh.idx > Len(intermediateTokens)
       THEN /\ IF mh.bestMultiHopQuote # NoQuote
               THEN qres' = mh.bestMultiHopQuote /\ qpc' = "ret" /\ UNCHANGED qerr
               ELSE /\ qpc' = "thrown"
                    /\ qerr' = [kind |-> "noRoute", from |-> qArgs.from,
                                to |-> qArgs.to]
                    /\ UNCHANGED qres
            /\ UNCHANGED <<dq, mh, decimalsCache>>
       ELSE LET intermediate == intermediateTokens[mh.idx]
            IN  IF intermediate = qArgs.from \/ intermediate = qArgs.to
                THEN /\ mh' = [mh EXCEPT !.idx = @ + 1]
                     /\ UNCHANGED <<dq, qpc, qres, qerr, decimalsCache>>
                ELSE /\ decimalsCache' =
                           getTokenDecimals(decimalsCache, {intermediate})
                     /\ dq' = StartDirect("firstHop", QuoteSymbol(qArgs.from),
                                          intermediate, qArgs.amount,
                                          decimalsCache'[intermediate],
                                          qArgs.from, intermediate)
                     /\ mh' = [mh EXCEPT !.firstHop = NoQuote,
                                         !.secondHop = NoQuote]
                     /\ qpc' = "tiers"
                     /\ UNCHANGED <<qres, qerr>>
    /\ UNCHANGED <<cfgVars, mcpVars, plVars, slVars, chainVars, txlog, oiVars, swVars, obsAllow, approved,
                   stVars, wfVars, qArgs, qlog, aggOut, directFails, directOuts,
                   tried, mock, rpc,
                   preloaded, answers, run, firstRun>>

\* the second hop is quoted for the amount of the request
FirstHopDoneRequestAmount ==
    /\ qpc = "tiers"
    /\ dq.stage = "firstHop"
    /\ dq.i > Len(feeTiers)
    /\ LET firstHop == DirectResult(dq)
           intermediate == intermediateTokens[mh.idx]
           intermediateDecimals == dq.toDecimals
           intermediateAmount == parseUnits(firstHop.amountOut, intermediateDecimals)
       IN  IF firstHop = NoQuote
           THEN /\ mh' = [mh EXCEPT !.idx = @ + 1]
                /\ tried' = Append(tried, Tried(intermediate, Failed, NotAsked,
                                                Failed))
                /\ dq' = NoDirect
                /\ qpc' = "intermediate"
           ELSE IF intermediateAmount = Failed
           THEN /\ mh' = [mh EXCEPT !.idx = @ + 1, !.firstHop = firstHop]
                /\ tried' = Append(tried, Tried(intermediate, dq.bestQuote,
                                                NotAsked, Failed))
                /\ dq' = NoDirect
                /\ qpc' = "intermediate"
           ELSE /\ mh' = [mh EXCEPT !.firstHop = firstHop]
                /\ dq' = StartDirect("secondHop", intermediate,
                                     QuoteSymbol(qArgs.to), qArgs.amount,
                                     mh.toDecimals,
                                     intermediate, qArgs.to)
                /\ UNCHANGED <<qpc, tried>>
    /\ UNCHANGED <<cfgVars, mcpVars, plVars, slVars, chainVars, txlog, oiVars, swVars, obsAllow, approved,
                   stVars, wfVars, qArgs, qlog, aggOut, directFails, directOuts,
                   qerr, decimalsCache, qres, mock, rpc,
                   preloaded, answers, run, firstRun>>

\* an intermediate without a first hop ends the two-hop search
FirstHopDoneEndsSearch ==
    /\ qpc = "tiers"
    /\ dq.stage = "firstHop"
    /\ dq.i > Len(feeTiers)
    /\ LET firstHop == DirectResult(dq)
           intermediate == intermediateTokens[mh.idx]
           intermediateDecimals == dq.toDecimals
           intermediateAmount == parseUnits(firstHop.amountOut, intermediateDecimals)
       IN  IF firstHop = NoQuote
           THEN /\ mh' = [mh EXCEPT !.idx = Len(intermediateTokens) + 1]
                /\ tried' = Append(tried, Tried(intermediate, Failed, NotAsked,
                                                Failed))
                /\ dq' = NoDirect
                /\ qpc' = "intermediate"
           ELSE IF intermediateAmount = Failed
           THEN /\ mh' = [mh EXCEPT !.idx = @ + 1, !.firstHop = firstHop]
                /\ tried' = Append(tried, Tried(intermediate, dq.bestQuote,
                                                NotAsked, Failed))
                /\ dq' = NoDirect
                /\ qpc' = "intermediate"
           ELSE /\ mh' = [mh EXCEPT !.firstHop = firstHop]
                /\ dq' = StartDirect("secondHop", intermediate,
                                     QuoteSymbol(qArgs.to), intermediateAmount,
                                     mh.toDecimals,
                                     intermediate, qArgs.to)
                /\ UNCHANGED <<qpc, tried>>
    /\ UNCHANGED <<cfgVars, mcpVars, plVars, slVars, chainVars, txlog, oiVars, swVars, obsAllow, approved,
                   stVars, wfVars, qArgs, qlog, aggOut, directFails, directOuts,
                   qerr, decimalsCache, qres, mock, rpc,
                   preloaded, answers, run, firstRun>>

\* getMultiHopQuote, lines 280-307: without a first hop the intermediate is
\* dropped; else the second hop is quoted for the first hop's output
FirstHopDone ==
    /\ qpc = "tiers"
    /\ dq.stage = "firstHop"
    /\ dq.i > Len(feeTiers)
    /\ LET firstHop == DirectResult(dq)
           intermediate == intermediateTokens[mh.idx]
           intermediateDecimals == dq.toDecimals
           intermediateAmount == parseUnits(firstHop.amountOut, intermediateDecimals)
       IN  IF firstHop = NoQuote
           THEN /\ mh' = [mh EXCEPT !.idx = @ + 1]
                /\ tried' = Append(tried, Tried(intermediate, Failed, NotAsked,
                                                Failed))
                /\ dq' = NoDirect
                /\ qpc' = "intermediate"
           ELSE IF intermediateAmount = Failed
           THEN /\ mh' = [mh EXCEPT !.idx = @ + 1, !.firstHop = firstHop]
                /\ tried' = Append(tried, Tried(intermediate, dq.bestQuote,
                                                NotAsked, Failed))
                /\ dq' = NoDirect
                /\ qpc' = "intermediate"
           ELSE /\ mh' = [mh EXCEPT !.firstHop = firstHop]
                /\ dq' = StartDirect("secondHop", intermediate,
                                     QuoteSymbol(qArgs.to), intermediateAmount,
                                     mh.toDecimals,
                                     intermediate, qArgs.to)
                /\ UNCHANGED <<qpc, tried>>
    /\ UNCHANGED <<cfgVars, mcpVars, plVars, slVars, chainVars, txlog, oiVars, swVars, obsAllow, approved,
                   stVars, wfVars, qArgs, qlog, aggOut, directFails, directOuts,
                   qerr, decimalsCache, qres, mock, rpc,
                   preloaded, answers, run, firstRun>>

\* the two-hop quote reports the fee of its second hop only
SecondHopDoneSecondFee ==
    /\ qpc = "tiers"
    /\ dq.stage = "secondHop"
    /\ dq.i > Len(feeTiers)
    /\ LET secondHop == DirectResult(dq)
           firstHop == mh.firstHop
           intermediate == intermediateTokens[mh.idx]
           multiHopQuote ==
               [kind |-> "multihop", amountOut |-> secondHop.amountOut,
                fee |-> secondHop.fee,
                priceImpact |-> AddImpact(firstHop.priceImpact,
                                          secondHop.priceImpact),
                route |-> <<qArgs.from, intermediate, qArgs.to>>]
       IN  IF secondHop = NoQuote
           THEN /\ mh' = [mh EXCEPT !.idx = @ + 1]
                /\ tried' = Append(tried, Tried(intermediate,
                                                firstHop.amountOut.units,
                                                dq.amountIn, Failed))
           ELSE /\ tried' = Append(tried, Tried(intermediate,
                                                firstHop.amountOut.units,
                                                dq.amountIn, dq.bestQuote))
                /\ IF \/ mh.bestMultiHopQuote = NoQuote
                      \/ FloatGt(multiHopQuote.amountOut,
                                 mh.bestMultiHopQuote.amountOut)
                   THEN mh' = [mh EXCEPT !.idx = @ + 1, !.secondHop = secondHop,
                                         !.bestMultiHopQuote = multiHopQuote,
                                         !.bestIntermediateToken = intermediate]
                   ELSE mh' = [mh EXCEPT !.idx = @ + 1, !.secondHop = secondHop]
    /\ dq' = NoDirect
    /\ qpc' = "intermediate"
    /\ UNCHANGED <<cfgVars, mcpVars, plVars, slVars, chainVars, txlog, oiVars, swVars, obsAllow, approved,
                   stVars, wfVars, qArgs, qlog, aggOut, directFails, directOuts,
                   qerr, decimalsCache, qres, mock, rpc,
                   preloaded, answers, run, firstRun>>

\* getMultiHopQuote, lines 308-335: without a second hop the intermediate is
\* dropped; else the two-hop quote replaces the best when it pays out more
SecondHopDone ==
    /\ qpc = "tiers"
    /\ dq.stage = "secondHop"
    /\ dq.i > Len(feeTiers)
    /\ LET secondHop == DirectResult(dq)
           firstHop == mh.firstHop
           intermediate == intermediateTokens[mh.idx]
           multiHopQuote ==
               [kind |-> "multihop", amountOut |-> secondHop.amountOut,
                fee |-> firstHop.fee + secondHop.fee,
                priceImpact |-> AddImpact(firstHop.priceImpact,
                                          secondHop.priceImpact),
                route |-> <<qArgs.from, intermediate, qArgs.to>>]
       IN  IF secondHop = NoQuote
           THEN /\ mh' = [mh EXCEPT !.idx = @ + 1]
                /\ tried' = Append(tried, Tried(intermediate,
                                                firstHop.amountOut.units,
                                                dq.amountIn, Failed))
           ELSE /\ tried' = Append(tried, Tried(intermediate,
                                                firstHop.amountOut.units,
                                                dq.amountIn, dq.bestQuote))
                /\ IF \/ mh.bestMultiHopQuote = NoQuote
                      \/ FloatGt(multiHopQuote.amountOut,
                                 mh.bestMultiHopQuote.amountOut)
                   THEN mh' = [mh EXCEPT !.idx = @ + 1, !.secondHop = secondHop,
                                         !.bestMultiHopQuote = multiHopQuote,
                                         !.bestIntermediateToken = intermediate]
                   ELSE mh' = [mh EXCEPT !.idx = @ + 1, !.secondHop = secondHop]
    /\ dq' = NoDirect
    /\ qpc' = "intermediate"
    /\ UNCHANGED <<cfgVars, mcpVars, plVars, slVars, chainVars, txlog, oiVars, swVars, obsAllow, approved,
                   stVars, wfVars, qArgs, qlog, aggOut, directFails, directOuts,
                   qerr, decimalsCache, qres, mock, rpc,
                   preloaded, answers, run, firstRun>>

\* BlockchainService, lines 61-96: the timer set by the constructor puts the
\* known decimals of every configured token into the cache, over what a lookup
\* has put there
preloadTokenDecimals ==
    /\ ~preloaded
    /\ preloaded' = TRUE
    /\ decimalsCache' = [t \in SupportedTokens |-> knownDecimals(t)]
    /\ UNCHANGED <<cfgVars, mcpVars, plVars, slVars, chainVars, txlog, oiVars, swVars, obsAllow, approved,
                   stVars, wfVars, qpc, qArgs, qlog, aggOut, dq, directFails,
                   directOuts, tried, qerr, mock, rpc, answers, run, firstRun,
                   mh, qres>>

\* getQuote is invoked again with the arguments of the invocation that is over;
\* of the service only the decimals cache is kept
getQuoteAgain ==
    /\ mock
    /\ run = 1
    /\ qpc \in {"ret", "thrown"}
    /\ firstRun' = [pc |-> qpc, res |-> qres, err |-> qerr, log |-> qlog]
    /\ run' = 2
    /\ qpc' = "start"
    /\ qlog' = <<>>
    /\ aggOut' = NotAsked
    /\ dq' = NoDirect
    /\ directFails' = 0
    /\ directOuts' = <<>>
    /\ tried' = <<>>
    /\ qerr' = NoError
    /\ mh' = NoMultiHop
    /\ qres' = NoQuote
    /\ UNCHANGED <<cfgVars, mcpVars, plVars, slVars, chainVars, txlog, oiVars, swVars, obsAllow, approved,
                   stVars, wfVars, qArgs, decimalsCache, mock, rpc, preloaded,
                   answers>>

QuoteStep ==
    \/ getQuote \/ QuoteResolve \/ getDirectQuote \/ DirectQuoteDone
    \/ getMultiHopQuote \/ FirstHopDone \/ SecondHopDone

\* ------------------------------------------------ the search for a source
\* (autoStakeWithBestAPY, lines 755-819, and findBestSourceAsset)

\* the amounts of the search are held in millionths of a token, the precision
\* of toFixed(6)
Micro == 1000000

\* getAllBalances, lines 297-332, and checkAllBalances: the keys of the
\* balances in the order they are set, ETH and then the configured tokens
balanceKeys == <<"ETH", "USDC", "GHO", "WETH">>

\* autoStakeWithBestAPY, line 765
priorityList == <<"ETH", "USDC", "USDT", "DAI", "USDbC">>

\* autoStakeWithBestAPY, lines 766-767
otherTokens(target) ==
    SelectSeq(balanceKeys,
              LAMBDA t : t \notin Range(priorityList) /\ t # target /\ t # "ETH")
tokensToCheckList(target) == priorityList \o otherTokens(target)

\* userBalances[token], undefined for a token without balance entry
BalanceOf(bal, t) == IF t \in DOMAIN bal THEN bal[t] ELSE 0

\* n / d rounded to the nearest integer
RoundDiv(n, d) == (2 * n + d) \div (2 * d)

\* autoStakeWithBestAPY, lines 785-788: (additionalNeeded / exchangeRate *
\* 1.01).toFixed(6) for exchangeRate = out / balance, in millionths
requiredSourceAmount(needed, balance, out) ==
    RoundDiv(needed * balance * 1010000, out)

NoBest == [token |-> "-", amount |-> 0, out |-> 0]
NoPlan == [pc |-> "idle", planner |-> "-", target |-> "-", required |-> 0,
           balances |-> [t \in Tokens |-> 0], idx |-> 1, pending |-> 0,
           best |-> NoBest, cands |-> <<>>, quotes |-> <<>>]

\* autoStakeWithBestAPY, line 756
additionalNeeded == pl.required - pl.balances[pl.target]

PlanQuote(from, to, pass, amount, out) ==
    [from |-> from, to |-> to, pass |-> pass, amount |-> amount, out |-> out]

\* the candidate is accepted whatever the precise quote pays out
PlanPreciseAnyOutput ==
    /\ pl.pc = "precise"
    /\ LET token == tokensToCheckList(pl.target)[pl.idx]
       IN  \E out \in Amounts \cup {Failed} :
             LET quotes == Append(pl.quotes, PlanQuote(token, pl.target, 2,
                                                       pl.pending, out))
                 cand == [token |-> token, amount |-> pl.pending, out |-> out]
             IN  IF out # Failed
                 THEN pl' = [pl EXCEPT
                               !.pc = "loop", !.idx = @ + 1, !.quotes = quotes,
                               !.cands = Append(@, cand),
                               !.best = IF pl.best = NoBest
                                           \/ pl.pending < pl.best.amount
                                        THEN cand ELSE @]
                 ELSE pl' = [pl EXCEPT !.pc = "loop", !.idx = @ + 1,
                                       !.quotes = quotes]
    /\ UNCHANGED <<cfgVars, mcpVars, chainVars, txlog, oiVars, swVars, obsAllow, approved,
                   stVars, wfVars, qVars, slVars>>

\* a candidate that needs as much as the best replaces it
PlanPreciseLastOnTie ==
    /\ pl.pc = "precise"
    /\ LET token == tokensToCheckList(pl.target)[pl.idx]
       IN  \E out \in Amounts \cup {Failed} :
             LET quotes == Append(pl.quotes, PlanQuote(token, pl.target, 2,
                                                       pl.pending, out))
                 cand == [token |-> token, amount |-> pl.pending, out |-> out]
             IN  IF out # Failed /\ out >= additionalNeeded
                 THEN pl' = [pl EXCEPT
                               !.pc = "loop", !.idx = @ + 1, !.quotes = quotes,
                               !.cands = Append(@, cand),
                               !.best = IF pl.best = NoBest
                                           \/ pl.pending <= pl.best.amount
                                        THEN cand ELSE @]
                 ELSE pl' = [pl EXCEPT !.pc = "loop", !.idx = @ + 1,
                                       !.quotes = quotes]
    /\ UNCHANGED <<cfgVars, mcpVars, chainVars, txlog, oiVars, swVars, obsAllow, approved,
                   stVars, wfVars, qVars, slVars>>

\* the precise quote is requested whether or not the balance covers the
\* estimate
PlanCandidateNoBalanceTest ==
    /\ pl.pc = "loop"
    /\ pl.planner = "autoStake"
    /\ pl.idx <= Len(tokensToCheckList(pl.target))
    /\ LET token == tokensToCheckList(pl.target)[pl.idx]
           balance == BalanceOf(pl.balances, token)
       IN  IF balance = 0
           THEN pl' = [pl EXCEPT !.idx = @ + 1]
           ELSE \E out \in Amounts \cup {Failed} :
                  LET quotes == Append(pl.quotes,
                                       PlanQuote(token, pl.target, 1,
                                                 balance * Micro, out))
                  IN  IF out # Failed /\ out > 0
                      THEN pl' = [pl EXCEPT
                                    !.pc = "precise", !.quotes = quotes,
                                    !.pending = requiredSourceAmount(
                                                    additionalNeeded, balance, out)]
                      ELSE pl' = [pl EXCEPT !.idx = @ + 1, !.quotes = quotes]
    /\ UNCHANGED <<cfgVars, mcpVars, chainVars, txlog, oiVars, swVars, obsAllow, approved,
                   stVars, wfVars, qVars, slVars>>

\* autoStakeWithBestAPY, lines 769-792 and 807-811: the next token; one without
\* balance is skipped; the quote of the whole balance gives the rate; a quote
\* that fails or a balance below the amount required ends the token
PlanCandidate ==
    /\ pl.pc = "loop"
    /\ pl.planner = "autoStake"
    /\ pl.idx <= Len(tokensToCheckList(pl.target))
    /\ LET token == tokensToCheckList(pl.target)[pl.idx]
           balance == BalanceOf(pl.balances, token)
       IN  IF balance = 0
           THEN pl' = [pl EXCEPT !.idx = @ + 1]
           ELSE \E out \in Amounts \cup {Failed} :
                  LET quotes == Append(pl.quotes,
                                       PlanQuote(token, pl.target, 1,
                                                 balance * Micro, out))
                  IN  IF /\ out # Failed
                         /\ out > 0
                         /\ balance * Micro >=
                                requiredSourceAmount(additionalNeeded, balance, out)
                      THEN pl' = [pl EXCEPT
                                    !.pc = "precise", !.quotes = quotes,
                                    !.pending = requiredSourceAmount(
                                                    additionalNeeded, balance, out)]
                      ELSE pl' = [pl EXCEPT !.idx = @ + 1, !.quotes = quotes]
    /\ UNCHANGED <<cfgVars, mcpVars, chainVars, txlog, oiVars, swVars, obsAllow, approved,
                   stVars, wfVars, qVars, slVars>>

\* a precise quote that fails is requested once more
PlanPreciseAgain ==
    /\ pl.pc = "precise"
    /\ LET token == tokensToCheckList(pl.target)[pl.idx]
       IN  \E out \in Amounts \cup {Failed} :
             LET quotes == Append(pl.quotes, PlanQuote(token, pl.target, 2,
                                                       pl.pending, out))
                 cand == [token |-> token, amount |-> pl.pending, out |-> out]
             IN  IF out # Failed /\ out >= additionalNeeded
                 THEN pl' = [pl EXCEPT
                               !.pc = "loop", !.idx = @ + 1, !.quotes = quotes,
                               !.cands = Append(@, cand),
                               !.best = IF pl.best = NoBest
                                           \/ pl.pending < pl.best.amount
                                        THEN cand ELSE @]
                 ELSE IF out = Failed /\ pl.quotes[Len(pl.quotes)].pass = 1
                      THEN pl' = [pl EXCEPT !.quotes = quotes]
                      ELSE pl' = [pl EXCEPT !.pc = "loop", !.idx = @ + 1,
                                            !.quotes = quotes]
    /\ UNCHANGED <<cfgVars, mcpVars, chainVars, txlog, oiVars, swVars, obsAllow, approved,
                   stVars, wfVars, qVars, slVars>>

\* autoStakeWithBestAPY, lines 793-806: the quote of the amount required; the
\* token is kept when the quote pays out what is needed and the amount is
\* less than that of the best so far
PlanPrecise ==
    /\ pl.pc = "precise"
    /\ LET token == tokensToCheckList(pl.target)[pl.idx]
       IN  \E out \in Amounts \cup {Failed} :
             LET quotes == Append(pl.quotes, PlanQuote(token, pl.target, 2,
                                                       pl.pending, out))
                 cand == [token |-> token, amount |-> pl.pending, out |-> out]
             IN  IF out # Failed /\ out >= additionalNeeded
                 THEN pl' = [pl EXCEPT
                               !.pc = "loop", !.idx = @ + 1, !.quotes = quotes,
                               !.cands = Append(@, cand),
                               !.best = IF pl.best = NoBest
                                           \/ pl.pending < pl.best.amount
                                        THEN cand ELSE @]
                 ELSE pl' = [pl EXCEPT !.pc = "loop", !.idx = @ + 1,
                                       !.quotes = quotes]
    /\ UNCHANGED <<cfgVars, mcpVars, chainVars, txlog, oiVars, swVars, obsAllow, approved,
                   stVars, wfVars, qVars, slVars>>

\* autoStakeWithBestAPY, lines 815-823: after the last token the best is the
\* source, or the search has failed
PlanDone ==
    /\ pl.pc = "loop"
    /\ pl.planner = "autoStake"
    /\ pl.idx > Len(tokensToCheckList(pl.target))
    /\ pl' = [pl EXCEPT !.pc = IF pl.best = NoBest THEN "failed" ELSE "planned"]
    /\ UNCHANGED <<cfgVars, mcpVars, chainVars, txlog, oiVars, swVars, obsAllow, approved,
                   stVars, wfVars, qVars, slVars>>

\* findBestSourceAsset, lines 168-197: the next asset of the balances; the
\* target and an asset without available balance are skipped; the asset is a
\* candidate when the quote of the target amount succeeds and the available
\* balance covers its amountIn, the target amount
findBestSourceAsset ==
    /\ pl.pc = "loop"
    /\ pl.planner = "smartDeposit"
    /\ pl.idx <= Len(balanceKeys)
    /\ LET asset == balanceKeys[pl.idx]
           balance == pl.balances[asset]
       IN  IF asset = pl.target \/ balance <= 0
              \/ availableBalance(pl.balances, asset) <= 0
           THEN pl' = [pl EXCEPT !.idx = @ + 1]
           ELSE \E out \in Amounts \cup {Failed} :
                  LET quotes == Append(pl.quotes,
                                       PlanQuote(IF asset = "ETH" THEN "WETH"
                                                 ELSE asset,
                                                 pl.target, 1,
                                                 pl.required * Micro, out))
                      cand == [token |-> asset, amount |-> pl.required * Micro,
                               out |-> out]
                  IN  IF /\ out # Failed
                         /\ pl.required <= availableBalance(pl.balances, asset)
                      THEN pl' = [pl EXCEPT !.idx = @ + 1, !.quotes = quotes,
                                            !.cands = Append(@, cand)]
                      ELSE pl' = [pl EXCEPT !.idx = @ + 1, !.quotes = quotes]
    /\ UNCHANGED <<cfgVars, mcpVars, chainVars, txlog, oiVars, swVars, obsAllow, approved,
                   stVars, wfVars, qVars, slVars>>

\* Array.prototype.sort by the amount, which is stable: the first of the
\* candidates with the least amount
FirstLeast(cands) ==
    cands[CHOOSE i \in DOMAIN cands :
            /\ \A j \in DOMAIN cands : cands[i].amount <= cands[j].amount
            /\ \A j \in DOMAIN cands :
                  j < i => cands[j].amount > cands[i].amount]

\* findBestSourceAsset, lines 199-208: null without a candidate, else the
\* candidate of the least amount
FindDone ==
    /\ pl.pc = "loop"
    /\ pl.planner = "smartDeposit"
    /\ pl.idx > Len(balanceKeys)
    /\ pl' = IF pl.cands = <<>> THEN [pl EXCEPT !.pc = "failed"]
             ELSE [pl EXCEPT !.pc = "planned", !.best = FirstLeast(pl.cands)]
    /\ UNCHANGED <<cfgVars, mcpVars, chainVars, txlog, oiVars, swVars, obsAllow, approved,
                   stVars, wfVars, qVars, slVars>>

PlanStep ==
    \/ PlanCandidate \/ PlanPrecise \/ PlanDone \/ findBestSourceAsset \/ FindDone

\* ------------------------------------------ the least output of an AMM swap
\* (SwapService.swap, lines 372-394 and 463-492)

\* maxSlippage, a percentage, in tenths of a percent: the default 1, the 2 of
\* the funding swaps and the bounds 0.1 and 5 of SwapDto
SlippageTenths == {1, 10, 20, 50}

\* line 353: maxSlippage = 1
DefaultSlippage == 10

\* the base units of the amountOut that the quote of a swap may report
QuotedUnits == {0, 1, 50, 1000, 123456}

\* Number.prototype.toFixed(d) of s * num / den for the decimal string s: the
\* decimal string with d fractional digits nearest to the value
toFixed(s, num, den, d) ==
    formatUnits(IF d >= s.decimals
                THEN RoundDiv(s.units * num * Pow10(d - s.decimals), den)
                ELSE RoundDiv(s.units * num, den * Pow10(s.decimals - d)),
                d)

\* lines 389-394
amountOutMin(amountOut, maxSlippage, toDecimals) ==
    parseUnits(toFixed(amountOut, 1000 - maxSlippage, 1000, toDecimals),
               toDecimals)

\* line 467: quote.route.includes('1inch') ? 3000 : Math.round(quote.fee *
\* 10000); the route names 1inch exactly when the aggregator gave the quote
\* (getQuote, line 108) and the fee is held times FeeScale
uniswapFee(quote) == IF quote.kind = "1inch" THEN 3000 ELSE quote.fee

NoParams == [tokenIn |-> "-", tokenOut |-> "-", fee |-> 0, amountIn |-> 0,
             amountOutMinimum |-> 0]
NoSlip == [pc |-> "idle", from |-> "-", to |-> "-", amount |-> 0,
           maxSlippage |-> 0, toDecimals |-> 0, quoted |-> NoQuote,
           quote |-> NoQuote.amountOut, amountOutMin |-> 0, params |-> NoParams]

\* the slippage is added to the quoted output
SwAmountOutMinAdded ==
    /\ sl.pc = "quote"
    /\ \/ \E u \in QuotedUnits, tier \in Range(feeTiers) :
            LET amountOut == formatUnits(u, sl.toDecimals)
            IN  sl' = [sl EXCEPT
                         !.pc = "balance",
                         !.quoted = [kind |-> "direct", amountOut |-> amountOut,
                                     fee |-> ReportedFee(tier), priceImpact |-> 0,
                                     route |-> <<sl.from, sl.to>>],
                         !.quote = amountOut,
                         !.amountOutMin =
                             parseUnits(toFixed(amountOut,
                                                1000 + sl.maxSlippage, 1000,
                                                sl.toDecimals),
                                        sl.toDecimals)]
       \/ sl' = [sl EXCEPT !.pc = "thrown"]
    /\ UNCHANGED <<cfgVars, mcpVars, plVars, chainVars, txlog, oiVars, swVars, obsAllow,
                   approved, stVars, wfVars, qVars>>

\* lines 387-394: the quote of this invocation, here that of a direct pool of
\* any tier, whose amountOut is a decimal string of toDecimals digits
\* (getQuote formats it with the decimals cached for the destination, the
\* ones read at lines 383-384), and amountOutMin; getQuote may throw
SwAmountOutMin ==
    /\ sl.pc = "quote"
    /\ \/ \E u \in QuotedUnits, tier \in Range(feeTiers) :
            LET amountOut == formatUnits(u, sl.toDecimals)
            IN  sl' = [sl EXCEPT
                         !.pc = "balance",
                         !.quoted = [kind |-> "direct", amountOut |-> amountOut,
                                     fee |-> ReportedFee(tier), priceImpact |-> 0,
                                     route |-> <<sl.from, sl.to>>],
                         !.quote = amountOut,
                         !.amountOutMin = amountOutMin(amountOut, sl.maxSlippage,
                                                       sl.toDecimals)]
       \/ sl' = [sl EXCEPT !.pc = "thrown"]
    /\ UNCHANGED <<cfgVars, mcpVars, plVars, chainVars, txlog, oiVars, swVars, obsAllow,
                   approved, stVars, wfVars, qVars>>

\* lines 372-394 with the quote that getQuote has returned for the arguments
\* of the swap: the addresses (a destination without address throws), the
\* decimals of the destination, those the quote is formatted with, and
\* amountOutMin
SwQuoted ==
    /\ sl.pc = "idle"
    /\ qpc = "ret"
    /\ QuoteSymbol(qArgs.from) \in SupportedTokens
    /\ qArgs.to \in SupportedTokens
    /\ sl' = [sl EXCEPT
                !.pc = "balance", !.from = qArgs.from, !.to = qArgs.to,
                !.amount = qArgs.amount, !.maxSlippage = DefaultSlippage,
                !.toDecimals = qres.amountOut.decimals,
                !.quoted = qres,
                !.quote = qres.amountOut,
                !.amountOutMin = amountOutMin(qres.amountOut, DefaultSlippage,
                                              qres.amountOut.decimals)]
    /\ UNCHANGED <<cfgVars, mcpVars, plVars, chainVars, txlog, oiVars, swVars, obsAllow,
                   approved, stVars, wfVars, qVars>>

\* lines 396-492: the balance check and the approval, which may throw, then
\* exactInputSingle is called with the parameters built at lines 467-477:
\* one pool, that of the source (WETH for ETH), the destination and the fee
SwExactInputSingle ==
    /\ sl.pc = "balance"
    /\ \/ sl' = [sl EXCEPT
                   !.pc = "sent",
                   !.params = [tokenIn |-> QuoteSymbol(sl.from),
                               tokenOut |-> sl.to,
                               fee |-> uniswapFee(sl.quoted),
                               amountIn |-> sl.amount,
                               amountOutMinimum |-> sl.amountOutMin]]
       \/ sl' = [sl EXCEPT !.pc = "thrown"]
    /\ UNCHANGED <<cfgVars, mcpVars, plVars, chainVars, txlog, oiVars, swVars, obsAllow,
                   approved, stVars, wfVars, qVars>>

SlipStep == SwAmountOutMin \/ SwExactInputSingle

\* ---------------------------------------------------------- specifications

Args(f, t, a) == [from |-> f, to |-> t, amount |-> a]

\* the requests: every entry point with its tokens and a positive amount
Requests ==
    {<<"smartStakeWithAutoFunding", Args(f, t, a)>> :
        f \in {"USDC", "GHO"}, t \in {"USDC", "GHO"}, a \in 1..MaxAmt}
    \cup {<<"autoStakeWithBestAPY", Args("-", "USDC", a)>> : a \in 1..MaxAmt}
    \cup {<<"smartDeposit", Args("-", "USDC", a)>> : a \in 1..MaxAmt}
    \cup {<<e, Args(f, "GHO", a)>> :
        e \in {"swap", "executeSwap"}, f \in {"ETH", "USDC"}, a \in 1..MaxAmt}
    \cup {<<"stake", Args("-", "USDC", a)>> : a \in 1..MaxAmt}

\* the tokens whose balance a request reads before any swap and the spenders
\* whose allowance may be granted before it; the others start at 0.  A
\* workflow meets the Aave pool without an allowance: the deposit with one is
\* the stake request.
ReadTokens(e, a) ==
    CASE e = "smartStakeWithAutoFunding" -> {"ETH", a.from}
      [] e = "autoStakeWithBestAPY" -> {"ETH", "USDC", "GHO"}
      [] e = "smartDeposit" -> {"ETH", "WETH", "USDC"}
      [] e = "stake" -> {a.to}
      [] OTHER -> {a.from}
ReadVenues(e, a) ==
    CASE e = "stake" -> {"aave"}
      [] e = "executeSwap" -> {"1inch"}
      [] OTHER -> {"1inch", "uniswap"}

\* the configurations: both settings on, or one of them off
Configs == {<<TRUE, TRUE>>, <<FALSE, TRUE>>, <<TRUE, FALSE>>}

\* no quote is running
QuoteIdle ==
    /\ qpc = "idle"
    /\ qArgs = NoArgs
    /\ qlog = <<>>
    /\ aggOut = NotAsked
    /\ dq = NoDirect
    /\ directFails = 0
    /\ directOuts = <<>>
    /\ tried = <<>>
    /\ qerr = NoError
    /\ decimalsCache = NoDecimals
    /\ mock = FALSE
    /\ rpc = "none"
    /\ preloaded = FALSE
    /\ answers = {}
    /\ run = 1
    /\ firstRun = NoOutcome
    /\ mh = NoMultiHop
    /\ qres = NoQuote

InitIdle ==
    /\ txlog = <<>>
    /\ oipc = [p \in Procs |-> "idle"]
    /\ oiArgs = [p \in Procs |-> NoArgs]
    /\ oiRes = [p \in Procs |-> NoRes]
    /\ swQuote = [p \in Procs |-> "none"]
    /\ swRes = [p \in Procs |-> NoRes]
    /\ obsAllow = [p \in Procs |-> [v \in Venues |-> -1]]
    /\ approved = [p \in Procs |-> {}]
    /\ stpc = "idle"
    /\ stArgs = NoArgs
    /\ stRes = NoRes
    /\ stakeCalls = <<>>
    /\ stages = <<>>
    /\ result = NoResult

\* one request served by the process
Init ==
    /\ \E c \in Configs : AUTO_EXECUTE = c[1] /\ wallet = c[2]
    /\ \E r \in Requests :
         /\ r[2].from # r[2].to
         /\ entry = r[1]
         /\ wfArgs = r[2]
         /\ chainBal \in [Tokens -> Amounts]
         /\ \A t \in Tokens \ ReadTokens(r[1], r[2]) : chainBal[t] = 0
         /\ allowance \in [Venues -> {0, MaxUint256}]
         /\ \A v \in Venues \ ReadVenues(r[1], r[2]) : allowance[v] = 0
    /\ wf = WfStart
    /\ swpc = [p \in Procs |-> "idle"]
    /\ swArgs = [p \in Procs |-> NoArgs]
    /\ InitIdle
    /\ QuoteIdle
    /\ pl = NoPlan
    /\ sl = NoSlip
    /\ rq = NoRequest

Next ==
    \/ ExecutorStep(W)
    \/ StakeStep
    \/ AutoFundingStep
    \/ AutoStakeStep
    \/ SmartDepositStep
    \/ EntryStep

Spec == Init /\ [][Next]_vars

\* one swap_execute tool call
ToolRequests ==
    {Args(f, t, a) : f \in {"USDC", "GHO"}, t \in {"USDC", "GHO"}, a \in 1..MaxAmt}

InitTool ==
    /\ \E c \in Configs : AUTO_EXECUTE = c[1] /\ wallet = c[2]
    /\ \E r \in ToolRequests :
         /\ r.from # r.to
         /\ entry = "swap_execute"
         /\ wfArgs = r
         /\ chainBal \in [Tokens -> Amounts]
         /\ \A t \in Tokens \ {"ETH", r.from} : chainBal[t] = 0
         /\ allowance \in [Venues -> {0, MaxUint256}]
         /\ allowance["aave"] = 0
    /\ wf = WfStart
    /\ swpc = [p \in Procs |-> "idle"]
    /\ swArgs = [p \in Procs |-> NoArgs]
    /\ InitIdle
    /\ QuoteIdle
    /\ pl = NoPlan
    /\ sl = NoSlip
    /\ rq = NoRequest

NextTool ==
    \/ ToolStep
    \/ ExecutorStep(W)
    \/ StakeStep
    \/ AutoFundingStep

SpecTool == InitTool /\ [][NextTool]_vars


\* one JSON-RPC request: a known or unknown method, params of the expected
\* shape or not, a known or unknown tool
McpRequests ==
    {[NoRequest EXCEPT !.pc = "recv", !.id = i, !.method = m, !.params = p, !.tool = t] :
        i \in RequestIds, m \in Methods \cup {"notifications/initialized"},
        p \in BOOLEAN, t \in ToolNames \cup {"unknown_tool"}}

InitMcp ==
    /\ AUTO_EXECUTE = TRUE
    /\ wallet = TRUE
    /\ chainBal = [t \in Tokens |-> 0]
    /\ allowance = [v \in Venues |-> 0]
    /\ entry = "tools/call"
    /\ wfArgs = NoArgs
    /\ wf = [WfStart EXCEPT !.pc = "mcp"]
    /\ swpc = [p \in Procs |-> "idle"]
    /\ swArgs = [p \in Procs |-> NoArgs]
    /\ InitIdle
    /\ QuoteIdle
    /\ pl = NoPlan
    /\ sl = NoSlip
    /\ \E r \in McpRequests :
          /\ r.method # "tools/call" => r.tool = "unknown_tool"
          /\ rq = r

NextMcp == McpStep

SpecMcp == InitMcp /\ [][NextMcp]_vars

\* two swap requests of the same sender and source token, served concurrently
InitConc ==
    /\ AUTO_EXECUTE = TRUE
    /\ wallet \in BOOLEAN
    /\ \E b \in Amounts : chainBal = [t \in Tokens |-> IF t = "USDC" THEN b ELSE 0]
    /\ allowance \in [Venues -> {0, MaxUint256}]
    /\ allowance["aave"] = 0
    /\ entry = "swap"
    /\ wfArgs = NoArgs
    /\ wf = [WfStart EXCEPT !.pc = "concurrent"]
    /\ swpc = [p \in Procs |-> "start"]
    /\ swArgs \in [Procs -> {Args("USDC", "GHO", a) : a \in 1..MaxAmt}]
    /\ InitIdle
    /\ QuoteIdle
    /\ pl = NoPlan
    /\ sl = NoSlip
    /\ rq = NoRequest

NextConc == \E p \in Procs : ExecutorStep(p)

SpecConc == InitConc /\ [][NextConc]_vars

\* the pairs quoted: an ERC20 pair and a native source, each with two
\* intermediates left, a pair with one, and an unsupported destination
QuotePairs == {<<"USDC", "GHO">>, <<"ETH", "USDC">>, <<"DAI", "WETH">>,
               <<"GHO", "XYZ">>}

\* one quote request against quoters whose answers are not constrained
InitQuote ==
    /\ AUTO_EXECUTE = TRUE
    /\ wallet = TRUE
    /\ chainBal = [t \in Tokens |-> 0]
    /\ allowance = [v \in Venues |-> 0]
    /\ entry = "getQuote"
    /\ wfArgs = NoArgs
    /\ wf = [WfStart EXCEPT !.pc = "quote"]
    /\ swpc = [p \in Procs |-> "idle"]
    /\ swArgs = [p \in Procs |-> NoArgs]
    /\ InitIdle
    /\ qpc = "start"
    /\ \E r \in QuotePairs, a \in 1..MaxAmt : qArgs = Args(r[1], r[2], a)
    /\ qlog = <<>>
    /\ aggOut = NotAsked
    /\ dq = NoDirect
    /\ directFails = 0
    /\ directOuts = <<>>
    /\ tried = <<>>
    /\ qerr = NoError
    /\ decimalsCache = NoDecimals
    /\ mock = FALSE
    /\ rpc = "none"
    /\ preloaded = FALSE
    /\ answers = {}
    /\ run = 1
    /\ firstRun = NoOutcome
    /\ mh = NoMultiHop
    /\ qres = NoQuote
    /\ pl = NoPlan
    /\ sl = NoSlip
    /\ rq = NoRequest

NextQuote == QuoteStep

SpecQuote == InitQuote /\ [][NextQuote]_vars

\* the pairs quoted twice: a pair with one intermediate left and an
\* unsupported destination
TwicePairs == {<<"DAI", "USDC">>, <<"GHO", "XYZ">>}

\* the same quote requested twice from a service just constructed, against
\* collaborators whose state is held
InitTwice ==
    /\ AUTO_EXECUTE = TRUE
    /\ wallet = TRUE
    /\ chainBal = [t \in Tokens |-> 0]
    /\ allowance = [v \in Venues |-> 0]
    /\ entry = "getQuote"
    /\ wfArgs = NoArgs
    /\ wf = [WfStart EXCEPT !.pc = "quote"]
    /\ swpc = [p \in Procs |-> "idle"]
    /\ swArgs = [p \in Procs |-> NoArgs]
    /\ InitIdle
    /\ qpc = "start"
    /\ \E r \in TwicePairs, a \in 1..MaxAmt : qArgs = Args(r[1], r[2], a)
    /\ qlog = <<>>
    /\ aggOut = NotAsked
    /\ dq = NoDirect
    /\ directFails = 0
    /\ directOuts = <<>>
    /\ tried = <<>>
    /\ qerr = NoError
    /\ decimalsCache = NoDecimals
    /\ mock = TRUE
    /\ rpc \in {"none", "decimals", "all"}
    /\ preloaded = FALSE
    /\ answers = {}
    /\ run = 1
    /\ firstRun = NoOutcome
    /\ mh = NoMultiHop
    /\ qres = NoQuote
    /\ pl = NoPlan
    /\ sl = NoSlip
    /\ rq = NoRequest

NextTwice == QuoteStep \/ getQuoteAgain \/ preloadTokenDecimals

SpecTwice == InitTwice /\ [][NextTwice]_vars

\* the targets of the searches
PlanTargets == {"USDC", "GHO"}

\* one search for a source, of autoStakeWithBestAPY or of smartDeposit, with
\* less of the target than required and quotes that are not constrained
InitPlan ==
    /\ AUTO_EXECUTE = TRUE
    /\ wallet = TRUE
    /\ chainBal = [t \in Tokens |-> 0]
    /\ allowance = [v \in Venues |-> 0]
    /\ entry = "plan"
    /\ wfArgs = NoArgs
    /\ wf = [WfStart EXCEPT !.pc = "plan"]
    /\ swpc = [p \in Procs |-> "idle"]
    /\ swArgs = [p \in Procs |-> NoArgs]
    /\ InitIdle
    /\ QuoteIdle
    /\ \E planner \in {"autoStake", "smartDeposit"}, target \in PlanTargets,
          required \in 1..MaxAmt, bal \in [Tokens -> Amounts] :
          /\ bal[target] < required
          /\ bal["WETH"] = 0
          /\ pl = [NoPlan EXCEPT !.pc = "loop", !.planner = planner,
                                 !.target = target, !.required = required,
                                 !.balances = bal]
    /\ sl = NoSlip
    /\ rq = NoRequest

NextPlan == PlanStep

SpecPlan == InitPlan /\ [][NextPlan]_vars

\* one quote request, of a pair with two intermediates left, or one search
\* for a source, run to its end: a collaborator call that was made returns
\* or fails, and the request's pipeline is resumed
InitTerm ==
    \/ InitQuote /\ qArgs = Args("USDC", "GHO", 1)
    \/ InitPlan

NextTerm == QuoteStep \/ PlanStep

SpecTerm == InitTerm /\ [][NextTerm]_vars /\ WF_vars(NextTerm)

\* the tokens of the swaps by the AMM
SlipPairs == {<<"ETH", "GHO">>, <<"ETH", "USDC">>, <<"USDC", "GHO">>}

\* one swap by the AMM: the tokens, the amount and the slippage are those of
\* the call, the decimals those of the destination
InitSlip ==
    /\ AUTO_EXECUTE = TRUE
    /\ wallet = TRUE
    /\ chainBal = [t \in Tokens |-> 0]
    /\ allowance = [v \in Venues |-> 0]
    /\ entry = "swap"
    /\ wfArgs = NoArgs
    /\ wf = [WfStart EXCEPT !.pc = "swap"]
    /\ swpc = [p \in Procs |-> "idle"]
    /\ swArgs = [p \in Procs |-> NoArgs]
    /\ InitIdle
    /\ QuoteIdle
    /\ pl = NoPlan
    /\ \E amount \in 1..MaxAmt, maxSlippage \in SlippageTenths,
          r \in SlipPairs :
          sl = [NoSlip EXCEPT !.pc = "quote", !.from = r[1], !.to = r[2],
                              !.amount = amount,
                              !.maxSlippage = maxSlippage,
                              !.toDecimals = Decimals(r[2])]
    /\ rq = NoRequest

NextSlip == SlipStep

SpecSlip == InitSlip /\ [][NextSlip]_vars

\* one swap that reaches the AMM, with the quote that getQuote returns for it
NextRoute == QuoteStep \/ SwQuoted \/ SwExactInputSingle

SpecRoute == InitQuote /\ [][NextRoute]_vars

\* -------------------------------------------------------------- properties

Workflows == {"smartStakeWithAutoFunding", "autoStakeWithBestAPY", "smartDeposit"}
SwapTxs == {i \in DOMAIN txlog : txlog[i].kind = "swap"}

\* C1: with the execution flag off (AUTO_EXECUTE not true) no approval, swap
\* or supply transaction is ever submitted, by any entry point.
C1_SimulationSubmitsNothing == ~AUTO_EXECUTE => txlog = <<>>

\* C2: a swap transaction of an ERC20 source is in the log only if the
\* allowance its invocation read covers the amount, or an approval of the same
\* invocation for the same router was sent before it and confirmed.
C2_SwapAfterAllowance ==
    \A i \in DOMAIN txlog :
        LET t == txlog[i]
        IN  (t.kind = "swap" /\ ~IsETH(t.token)) =>
                \/ obsAllow[t.p][t.venue] >= t.amount
                \/ /\ t.venue \in approved[t.p]
                   /\ \E j \in 1..(i - 1) :
                        /\ txlog[j].kind = "approve"
                        /\ txlog[j].p = t.p
                        /\ txlog[j].venue = t.venue
                        /\ txlog[j].token = t.token

\* a swap was sent after the allowance read was too low and the approval was
\* confirmed
C2_Witness ==
    \E i \in DOMAIN txlog :
        /\ txlog[i].kind = "swap"
        /\ ~IsETH(txlog[i].token)
        /\ obsAllow[txlog[i].p][txlog[i].venue] \in 0..(txlog[i].amount - 1)
        /\ txlog[i].venue \in approved[txlog[i].p]

\* the asset whose balance decides whether a workflow needs funding
RequiredAsset ==
    IF entry = "smartStakeWithAutoFunding" THEN wfArgs.from ELSE wfArgs.to

\* C3: the stages are entered in the order funding swap (optional), target
\* swap, deposit; the funding swap only with a shortfall in the snapshot; the
\* target swap or deposit after a funding swap only once it is confirmed; the
\* deposit only after the swap before it succeeded; nothing after a failure.
C3_StageOrder ==
    entry \in Workflows =>
        /\ \A i \in DOMAIN stages :
             LET prev == IF i = 1 THEN "planning" ELSE stages[i - 1]
             IN  /\ stages[i] = "funding-swap" => prev = "planning"
                 /\ stages[i] \in {"funding-swap:ok", "funding-swap:failed"}
                        => prev = "funding-swap"
                 /\ stages[i] = "target-swap"
                        => prev \in {"planning", "funding-swap:ok"}
                 /\ stages[i] \in {"target-swap:ok", "target-swap:failed"}
                        => prev = "target-swap"
                 /\ stages[i] = "deposit" =>
                        IF entry = "smartStakeWithAutoFunding"
                        THEN prev = "target-swap:ok"
                        ELSE prev \in {"planning", "funding-swap:ok"}
                 /\ stages[i] \in {"deposit:ok", "deposit:failed"}
                        => prev = "deposit"
                 /\ stages[i] \in {"funding-swap:failed", "target-swap:failed",
                                   "deposit:failed", "deposit:ok"}
                        => /\ i = Len(stages)
                           /\ wf.pc = "done"
                           /\ swpc[W] = "idle" /\ oipc[W] = "idle" /\ stpc = "idle"
        /\ "funding-swap" \in Range(stages)
              => wf.snapshot[RequiredAsset] < wfArgs.amount
        /\ (/\ entry # "smartDeposit"
            /\ "funding-swap" \in Range(stages)
            /\ Range(stages) \cap {"target-swap", "deposit"} # {})
              => /\ wf.confirmed
                 /\ wf.fundRes.kind = "ok"
                 /\ SwapTxs # {}
        /\ result.status = "ok" => Last(stages) = "deposit:ok"

\* the auto-funding workflow went through all three stages
C3_Witness ==
    /\ entry = "smartStakeWithAutoFunding"
    /\ stages = <<"funding-swap", "funding-swap:ok", "target-swap",
                  "target-swap:ok", "deposit", "deposit:ok">>
    /\ result.status = "ok"

\* C4 as stated: with a snapshot balance of the required asset of at least
\* the required amount, no swap stage is entered, no swap is submitted and
\* every deposit call is of the required asset and amount.
C4_SufficientBalanceNoSwap ==
    (entry \in Workflows /\ wf.snapshot[RequiredAsset] >= wfArgs.amount) =>
        /\ SwapTxs = {}
        /\ Range(stages) \cap {"funding-swap", "target-swap"} = {}
        /\ \A c \in Range(stakeCalls) :
              c = [asset |-> RequiredAsset, amount |-> wfArgs.amount]

\* C4: in autoStakeWithBestAPY and smartDeposit a snapshot balance of the
\* target asset of at least the amount leads to no swap and to exactly one
\* deposit call, of the target asset and the amount; in
\* smartStakeWithAutoFunding a sufficient source balance skips the funding
\* swap only: the deposit, if any, follows the target swap and is of the target
\* token and the quoted output.
C4_SufficientBalanceDeposit ==
    /\ (/\ entry \in {"autoStakeWithBestAPY", "smartDeposit"}
        /\ wf.snapshot[wfArgs.to] >= wfArgs.amount) =>
            /\ SwapTxs = {}
            /\ Range(stages) \cap {"funding-swap", "target-swap"} = {}
            /\ swpc[W] = "idle" /\ oipc[W] = "idle"
            /\ stakeCalls = <<[asset |-> wfArgs.to, amount |-> wfArgs.amount]>>
    /\ (/\ entry = "smartStakeWithAutoFunding"
        /\ wf.snapshot[wfArgs.from] >= wfArgs.amount) =>
            /\ "funding-swap" \notin Range(stages)
            /\ Len(stakeCalls) <= 1
            /\ \A c \in Range(stakeCalls) :
                  c = [asset |-> wfArgs.to, amount |-> wf.mainQuote]
            /\ stakeCalls # <<>> => "target-swap:ok" \in Range(stages)

\* autoStakeWithBestAPY deposited directly what the user held
C4_Witness ==
    /\ entry = "autoStakeWithBestAPY"
    /\ wf.snapshot[wfArgs.to] >= wfArgs.amount
    /\ stages = <<"deposit", "deposit:ok">>
    /\ result.status = "ok"

\* C5: when the deposit fails after a successful funding swap, the result has
\* success = false, holds the funding swap's outcome and the failed deposit,
\* and no target swap that was not performed.
C5_DepositFailureKeepsFunding ==
    (/\ entry \in Workflows
     /\ wf.pc = "done"
     /\ "funding-swap:ok" \in Range(stages)
     /\ "deposit:failed" \in Range(stages)) =>
        /\ result.status = "fail"
        /\ result.ethSwap = "ok"
        /\ result.stake = "thrown"
        /\ "target-swap" \notin Range(stages) => result.mainSwap = "none"

\* C6: when the target swap fails after a successful funding swap, the result
\* names the target swap as the failed stage and records the funding swap.
C6_TargetFailureIsPartial ==
    (/\ entry \in Workflows
     /\ wf.pc = "done"
     /\ "funding-swap:ok" \in Range(stages)
     /\ "target-swap:failed" \in Range(stages)) =>
        /\ result.status = "fail"
        /\ result.stage = "target-swap"
        /\ result.ethSwap = "ok"

\* C7: when the funding swap of smartStakeWithAutoFunding fails, the workflow
\* is done with success = false, the funding swap as the failed stage and a
\* suggestion; no target swap and no deposit is invoked: no stake call, no
\* transaction other than the funding swap's, every executor idle.
C7_FundingFailureTerminates ==
    (/\ entry = "smartStakeWithAutoFunding"
     /\ "funding-swap:failed" \in Range(stages)) =>
        /\ wf.pc = "done"
        /\ result = [FailGeneric EXCEPT !.suggestion = TRUE,
                                        !.stage = "funding-swap"]
        /\ stages = <<"funding-swap", "funding-swap:failed">>
        /\ stakeCalls = <<>>
        /\ \A i \in DOMAIN txlog : txlog[i].token = wf.plan.from
        /\ swpc[W] = "idle" /\ oipc[W] = "idle" /\ stpc = "idle"

\* the funding swap failed after its transaction was sent
C7_Witness ==
    /\ entry = "smartStakeWithAutoFunding"
    /\ Len(stages) > 0
    /\ Last(stages) = "funding-swap:failed"
    /\ SwapTxs # {}

\* C8: one invocation of a swap executor submits at most one swap
\* transaction, and nothing after an attempt failed.
C8_AtMostOneSwapTx ==
    entry \in {"swap", "executeSwap"} => Cardinality(SwapTxs) <= 1

\* C9: no execution has two invocations that both read an allowance that is
\* too low and both sent an approval, or that both passed the balance check
\* and both sent a swap against a balance that does not cover the two.
C9_NoInterleaving ==
    /\ ~ \E v \in {"1inch", "uniswap"} :
           \A p \in Procs :
              /\ obsAllow[p][v] \in 0..(swArgs[p].amount - 1)
              /\ \E i \in DOMAIN txlog :
                    /\ txlog[i].p = p
                    /\ txlog[i].venue = v
                    /\ txlog[i].kind = "approve"
    /\ ~ \E p \in Procs : \E q \in Procs \ {p} :
           /\ swpc[p] = "wait" /\ swpc[q] = "wait"
           /\ swArgs[p].from = swArgs[q].from
           /\ chainBal[swArgs[p].from] < swArgs[p].amount + swArgs[q].amount

\* the stage of a logged call in the order of the strategies
StageRank(c) ==
    CASE c.stage = "aggregator" -> 0
      [] c.stage = "direct" -> 1
      [] OTHER -> 2

\* C10: the calls of getQuote are in the order aggregator, direct tiers,
\* two-hop legs; an aggregator quote is returned with its amountOut and no
\* quoter call; the quoter is called only after the aggregator failed; a
\* two-hop leg is quoted only after every direct tier was quoted and failed;
\* a direct quote is returned without any two-hop call.
C10_StrategyOrder ==
    /\ qlog # <<>> =>
          /\ qlog[1].kind = "aggregator"
          /\ \A i \in DOMAIN qlog : i > 1 => qlog[i].kind = "quoter"
    /\ \A i \in DOMAIN qlog : \A j \in DOMAIN qlog :
          i < j => StageRank(qlog[i]) <= StageRank(qlog[j])
    /\ aggOut >= 0 =>
          /\ qpc = "ret"
          /\ qres.kind = "1inch"
          /\ qres.amountOut.units = aggOut
          /\ Len(qlog) = 1
    /\ (\E i \in DOMAIN qlog : qlog[i].kind = "quoter") => aggOut = Failed
    /\ (\E i \in DOMAIN qlog : StageRank(qlog[i]) = 2) =>
          /\ directFails = Len(feeTiers)
          /\ \A k \in DOMAIN feeTiers :
                /\ qlog[k + 1].stage = "direct"
                /\ qlog[k + 1].fee = feeTiers[k]
    /\ (qpc = "ret" /\ qres.kind = "direct") =>
          \A i \in DOMAIN qlog : StageRank(qlog[i]) <= 1
    /\ (qpc = "ret" /\ qres.kind = "multihop") =>
          \E i \in DOMAIN qlog : StageRank(qlog[i]) = 2

\* a two-hop quote was returned after the aggregator and every direct tier
\* failed
C10_Witness ==
    /\ qpc = "ret"
    /\ qres.kind = "multihop"
    /\ aggOut = Failed
    /\ directFails = Len(feeTiers)

\* the greatest output the tiers of the direct route answered
MaxOut(outs) == CHOOSE m \in Range(outs) : \A o \in Range(outs) : o <= m

\* a direct quote was returned
DirectReturned == qpc = "ret" /\ qres.kind = "direct"

C12_FirstTierOnTie ==
    DirectReturned =>
        \A j \in DOMAIN directOuts : \A k \in DOMAIN directOuts :
            (j < k /\ directOuts[j] = MaxOut(directOuts)
                   /\ directOuts[k] = MaxOut(directOuts))
                => qres.fee * 10000 # feeTiers[k] * FeeScale

\* two tiers answered zero, no tier more, and a quote was returned
C12_Witness ==
    /\ DirectReturned
    /\ MaxOut(directOuts) = 0
    /\ \E j \in DOMAIN directOuts : \E k \in DOMAIN directOuts :
          j < k /\ directOuts[j] = 0 /\ directOuts[k] = 0

\* C13: a failing fee tier is left out and the tiers after it are quoted all
\* the same, each with the arguments of the search; the direct search gives
\* nothing exactly when every tier failed.
C13_FailingTierSkipped ==
    /\ qpc = "tiers" =>
          /\ Len(qlog) >= dq.i - 1
          /\ \A k \in 1..(dq.i - 1) :
                qlog[Len(qlog) - (dq.i - 1) + k] =
                    QuoteCall("quoter", dq.stage, dq.from, dq.to, feeTiers[k],
                              dq.amountIn)
          /\ dq.stage = "direct" =>
                /\ Len(directOuts) = dq.i - 1
                /\ dq.bestQuote = Failed <=>
                      \A k \in DOMAIN directOuts : directOuts[k] = Failed
                /\ dq.bestQuote # Failed =>
                      \E k \in DOMAIN directOuts :
                          /\ directOuts[k] = dq.bestQuote
                          /\ feeTiers[k] = dq.bestFee
    /\ DirectReturned =>
          /\ Len(directOuts) = Len(feeTiers)
          /\ \E k \in DOMAIN directOuts : directOuts[k] # Failed
    /\ qpc \in {"intermediate", "thrown"} /\ qerr.kind # "unsupported" =>
          /\ Len(directOuts) = Len(feeTiers)
          /\ \A k \in DOMAIN directOuts : directOuts[k] = Failed

\* the first and the third tier failed, the fourth answered, and the quote of
\* the second or fourth was returned
C13_Witness ==
    /\ DirectReturned
    /\ Len(directOuts) = Len(feeTiers)
    /\ directOuts[1] = Failed
    /\ directOuts[3] = Failed
    /\ directOuts[4] # Failed

\* a two-hop quote was returned
MultiHopReturned == qpc = "ret" /\ qres.kind = "multihop"

\* C14: the intermediate of a two-hop route returned is neither the source nor
\* the destination, also not the wrapped token that a native source or
\* destination is quoted as.
C14_IntermediateDisjoint ==
    MultiHopReturned =>
        /\ Len(qres.route) = 3
        /\ qres.route[2] \notin {qArgs.from, qArgs.to}
        /\ qres.route[2] \notin {QuoteSymbol(qArgs.from), QuoteSymbol(qArgs.to)}

\* the tried intermediates that gave a two-hop quote
Valid == {i \in DOMAIN tried : tried[i].out # Failed}

\* the two-hop search is over
MultiHopOver == MultiHopReturned \/ (qpc = "thrown" /\ qerr.kind = "noRoute")

\* C15: when no direct pool quotes the pair and an intermediate I quotes both
\* legs, a two-hop route is returned; it runs through an intermediate whose
\* legs both quoted, through I when I is the only one, and its amountOut is the
\* best output of the second leg, which was quoted from the intermediate to
\* the destination with exactly the first leg's output as its input.
C15_TwoHopThroughIntermediate ==
    /\ (qpc = "tiers" /\ dq.stage = "secondHop") =>
          /\ mh.firstHop.kind = "direct"
          /\ dq.amountIn = mh.firstHop.amountOut.units
          /\ dq.from = intermediateTokens[mh.idx]
          /\ dq.to = QuoteSymbol(qArgs.to)
    /\ \A i \in DOMAIN tried :
          /\ tried[i].secondIn # NotAsked => tried[i].secondIn = tried[i].first
          /\ tried[i].out # Failed => tried[i].secondIn # NotAsked
    /\ (MultiHopOver /\ Valid # {}) =>
          /\ MultiHopReturned
          /\ directFails = Len(feeTiers)
          /\ \E i \in Valid :
                /\ qres.route = <<qArgs.from, tried[i].via, qArgs.to>>
                /\ qres.amountOut = [units |-> tried[i].out,
                                     decimals |-> Decimals(QuoteSymbol(qArgs.to))]

\* one intermediate quoted both legs, the first with an output other than the
\* amount of the request, and the route through it was returned
C15_Witness ==
    /\ MultiHopReturned
    /\ \E i \in DOMAIN tried :
          /\ Valid = {i}
          /\ tried[i].first # qArgs.amount
          /\ tried[i].out > 0
          /\ qres.route[2] = tried[i].via

\* the intermediates that are not skipped, in the order of the search
Candidates ==
    SelectSeq(intermediateTokens, LAMBDA t : t \notin {qArgs.from, qArgs.to})

\* the first of the tried intermediates with the greatest output
BestTried ==
    CHOOSE i \in Valid :
        /\ \A j \in Valid : tried[j].out <= tried[i].out
        /\ \A j \in Valid : j < i => tried[j].out < tried[i].out

LastIsBest ==
    /\ tried # <<>>
    /\ mh.secondHop # NoQuote
    /\ mh.bestIntermediateToken = tried[Len(tried)].via

\* C17: the fee and the price impact of a two-hop route are the sums of the
\* fees and of the price impacts of its two legs, and the fee of a leg is that
\* of the tier that won the leg's direct search.
C17_TwoHopSums ==
    /\ (qpc = "tiers" /\ dq.i > Len(feeTiers) /\ dq.bestQuote # Failed) =>
          DirectResult(dq).fee * 10000 = dq.bestFee * FeeScale
    /\ LastIsBest =>
          /\ mh.bestMultiHopQuote.fee = mh.firstHop.fee + mh.secondHop.fee
          /\ mh.bestMultiHopQuote.priceImpact =
                AddImpact(mh.firstHop.priceImpact, mh.secondHop.priceImpact)
          /\ (MultiHopReturned => qres = mh.bestMultiHopQuote)
    /\ MultiHopReturned =>
          \E f \in Range(feeTiers) : \E g \in Range(feeTiers) :
              qres.fee * 10000 = (f + g) * FeeScale

\* a two-hop route was returned whose legs have different fees and price
\* impacts that are numbers
C17_Witness ==
    /\ MultiHopReturned
    /\ LastIsBest
    /\ mh.firstHop.fee # mh.secondHop.fee
    /\ mh.firstHop.priceImpact > 0
    /\ mh.secondHop.priceImpact > 0
    /\ qres.fee = mh.firstHop.fee + mh.secondHop.fee

\* C18: when the aggregator, every tier of the direct search and every
\* intermediate of the two-hop search failed, getQuote throws the no-route
\* error, which names the source and the destination of the request, and
\* returns no quote; the error is thrown in no other case.
C18_NoRouteError ==
    /\ (qpc = "thrown" /\ qerr.kind = "noRoute") =>
          /\ aggOut = Failed
          /\ directFails = Len(feeTiers)
          /\ Len(tried) = Len(Candidates)
          /\ Valid = {}
          /\ qerr.from = qArgs.from
          /\ qerr.to = qArgs.to
    /\ (/\ qpc \in {"ret", "thrown"}
        /\ aggOut = Failed
        /\ directFails = Len(feeTiers)
        /\ Valid = {}) =>
          /\ qpc = "thrown"
          /\ qerr.kind = "noRoute"
    /\ qpc = "thrown" => (qres = NoQuote /\ qerr # NoError)
    /\ qpc = "ret" => (qres # NoQuote /\ qerr = NoError)

\* the no-route error was thrown after an intermediate quoted its first leg
\* and failed on the second
C18_Witness ==
    /\ qpc = "thrown"
    /\ qerr = [kind |-> "noRoute", from |-> qArgs.from, to |-> qArgs.to]
    /\ Len(tried) = 2
    /\ \E i \in DOMAIN tried : tried[i].first # Failed

\* the second invocation is over
SecondOver == run = 2 /\ qpc \in {"ret", "thrown"}

\* C19: a second invocation of getQuote with the arguments of the first,
\* against collaborators that answer every call as before, ends as the first
\* did: with the same quote (amountOut, fee, price impact and route) or the
\* same error.
C19_Idempotent ==
    SecondOver =>
        /\ firstRun.pc = qpc
        /\ firstRun.res = qres
        /\ firstRun.err = qerr

\* a funding swap has been planned
Planned == wf.plan # NoArgs

\* C20: the amount of the funding swap that a workflow has planned is at most
\* the balance that the snapshot shows of the source asset chosen, in
\* autoStakeWithBestAPY, in smartStakeWithAutoFunding and in smartDeposit;
\* when smartDeposit chose ETH, the amount is covered by the ETH balance
\* although the swap is made from WETH.
C20_PlanWithinSnapshot ==
    (entry \in Workflows /\ Planned) =>
        /\ wf.source \in Tokens
        /\ wf.plan.amount <= wf.snapshot[wf.source]
        /\ wf.plan.from = (IF entry = "smartDeposit" /\ wf.source = "ETH"
                           THEN "WETH" ELSE wf.source)

\* smartStakeWithAutoFunding planned a funding swap of the whole ETH balance
\* and invoked it
C20_Witness ==
    /\ entry = "smartStakeWithAutoFunding"
    /\ Planned
    /\ wf.plan.amount = wf.snapshot[wf.source]
    /\ wf.plan.amount > 0
    /\ wf.pc = "af_fund"

\* the search has returned a source
SourceFound == pl.pc = "planned"

\* C21: when autoStakeWithBestAPY finds a source for an amount that the
\* balance of the target does not cover, the source was quoted a second time,
\* at the amount chosen, and that quote pays out at least the amount missing.
C21_ExpectedOutputCoversShortfall ==
    SourceFound /\ pl.planner = "autoStake" =>
        /\ pl.best.out >= additionalNeeded
        /\ \E i \in DOMAIN pl.quotes :
              pl.quotes[i] = PlanQuote(pl.best.token, pl.target, 2,
                                       pl.best.amount, pl.best.out)

\* a source whose second quote pays out exactly the amount missing, after
\* another token was rejected
C21_Witness ==
    /\ SourceFound
    /\ pl.planner = "autoStake"
    /\ additionalNeeded > 0
    /\ pl.best.out = additionalNeeded
    /\ \E i \in DOMAIN pl.quotes :
          /\ pl.quotes[i].pass = 2
          /\ pl.quotes[i].out # Failed
          /\ pl.quotes[i].out < additionalNeeded

\* the place of a token among the candidates
PlaceOf(token) == CHOOSE i \in DOMAIN pl.cands : pl.cands[i].token = token

\* C22: the source returned is one of the candidates accepted, none of
\* them needs a smaller amount, and those that need the same amount come
\* after it in the order of the search.
C22_SmallestSourceAmount ==
    SourceFound =>
        /\ \E i \in DOMAIN pl.cands : pl.cands[i] = pl.best
        /\ \A j \in DOMAIN pl.cands :
              /\ pl.cands[j].amount >= pl.best.amount
              /\ (pl.cands[j].amount = pl.best.amount
                    => PlaceOf(pl.best.token) <= j)

\* two candidates that need the same amount, the source being the one found
\* first
C22_Witness ==
    /\ SourceFound
    /\ pl.planner = "autoStake"
    /\ \E i, j \in DOMAIN pl.cands :
          /\ i < j
          /\ pl.cands[i] = pl.best
          /\ pl.cands[j].amount = pl.best.amount

\* C23: the search never asks for a quote from the target to itself and
\* never returns the target as the source, whatever the target, one of the
\* priority tokens included.
C23_TargetNeverCandidate ==
    /\ \A i \in DOMAIN pl.quotes : pl.quotes[i].from # pl.quotes[i].to
    /\ SourceFound => pl.best.token # pl.target

\* C24: when the source of a funding swap is ETH, the amount swapped leaves
\* the gas reserve: it is at most the ETH balance less the reserve, in
\* autoStakeWithBestAPY, smartStakeWithAutoFunding and smartDeposit alike.
C24_GasBufferReserved ==
    Planned /\ wf.source = "ETH" =>
        wf.plan.amount <= wf.snapshot["ETH"] - EthGasReserve

\* C25: when the search finds no source, the failure returned to the caller
\* carries the balances read, and no transaction was sent and no deposit
\* called.
C25_NoSourceWithBalances ==
    result.reason = "no-source" =>
        /\ result.balances = wf.snapshot
        /\ txlog = <<>>
        /\ stakeCalls = <<>>

\* the quote is the first one of a token: the whole balance is quoted
FirstPass(q) ==
    /\ q.pass = 1
    /\ q.to = pl.target
    /\ BalanceOf(pl.balances, q.from) > 0
    /\ q.amount = BalanceOf(pl.balances, q.from) * Micro

\* the amount is needed / (out / balance) * 1.01 to the nearest millionth
IsEstimate(amount, balance, out) ==
    /\ 2 * (amount * out - additionalNeeded * balance * 1010000) <= out
    /\ 2 * (additionalNeeded * balance * 1010000 - amount * out) < out

\* the balance of the token covers the estimate that the first quote gives:
\* needed / (out / balance) * 1.01 is less than the balance and half a
\* millionth
Covered(q) ==
    /\ q.out # Failed
    /\ q.out > 0
    /\ 2 * additionalNeeded * BalanceOf(pl.balances, q.from) * 1010000
          < (2 * BalanceOf(pl.balances, q.from) * Micro + 1) * q.out

\* C26: autoStakeWithBestAPY quotes every token it considers once at its
\* whole balance; the amount missing is the amount required less the balance
\* of the target; a second quote follows, for the amount missing divided by
\* the rate of the first quote and increased by 1%, exactly when the first
\* quote answered and the balance covers that amount; a token without second
\* quote is not accepted.
C26_TwoPassEstimate ==
    pl.planner = "autoStake" =>
        /\ additionalNeeded = pl.required - pl.balances[pl.target]
        /\ \A i \in DOMAIN pl.quotes :
              LET q == pl.quotes[i]
              IN  /\ q.pass = 1 =>
                        /\ FirstPass(q)
                        /\ \A j \in DOMAIN pl.quotes :
                              pl.quotes[j].pass = 1 /\ pl.quotes[j].from = q.from
                                  => j = i
                        /\ Covered(q) <=>
                              \/ i = Len(pl.quotes) /\ pl.pc = "precise"
                              \/ /\ i < Len(pl.quotes)
                                 /\ pl.quotes[i + 1].pass = 2
                  /\ q.pass = 2 =>
                        /\ i > 1
                        /\ pl.quotes[i - 1].pass = 1
                        /\ pl.quotes[i - 1].from = q.from
                        /\ q.to = pl.target
                        /\ IsEstimate(q.amount,
                                      BalanceOf(pl.balances, q.from),
                                      pl.quotes[i - 1].out)
                        /\ q.amount <= BalanceOf(pl.balances, q.from) * Micro
        /\ \A c \in DOMAIN pl.cands :
              \E i \in DOMAIN pl.quotes :
                  /\ pl.quotes[i].pass = 2
                  /\ pl.quotes[i].from = pl.cands[c].token
                  /\ pl.quotes[i].amount = pl.cands[c].amount

\* a search that ended after three tokens: one whose first quote failed, one
\* whose balance is below the estimate and one that was quoted twice
C26_Witness ==
    /\ pl.planner = "autoStake"
    /\ pl.pc \in {"planned", "failed"}
    /\ \E i, j, k \in DOMAIN pl.quotes :
          /\ pl.quotes[i].pass = 1 /\ pl.quotes[i].out = Failed
          /\ pl.quotes[j].pass = 1 /\ pl.quotes[j].out > 0
          /\ ~Covered(pl.quotes[j])
          /\ pl.quotes[k].pass = 2

\* exactInputSingle was called by the swap
SwapSubmitted == sl.pc = "sent"

OperationAmount(tx) ==
    CASE tx.venue = "1inch" -> oiArgs[tx.p].amount
      [] tx.venue = "uniswap" -> swArgs[tx.p].amount
      [] OTHER -> stArgs.amount

\* C28: an approval, a swap or a supply is submitted only while the balance
\* of the source on the chain covers the amount of the operation, by the
\* aggregator, by the AMM and by the deposit alike; with a lesser balance the
\* operation has failed before.
C28_BalanceCheckedBeforeActing ==
    [][Len(txlog') > Len(txlog) =>
          chainBal[Last(txlog').token] >= OperationAmount(Last(txlog'))]_vars

\* C29: with the execution flag off, a run of smartStakeWithAutoFunding or of
\* autoStakeWithBestAPY that does not fail returns the plan of its stages, a
\* simulated result, and has submitted no transaction.
C29_SimulationReturnsPlan ==
    /\ ~AUTO_EXECUTE
    /\ entry \in {"smartStakeWithAutoFunding", "autoStakeWithBestAPY"}
    /\ wf.pc = "done"
    /\ result.status \notin {"fail", "throw"}
    => result.status = "sim" /\ txlog = <<>>

\* C30: the deposit that a workflow calls after a funding swap is of the
\* asset to deposit and of the amount the caller asked for, not of the output
\* that a swap quoted or paid out.
C30_DepositOfRequestedAmount ==
    /\ entry \in Workflows
    /\ stpc # "idle"
    /\ \E i \in DOMAIN stages : stages[i] = "funding-swap:ok"
    => stArgs.from = wfArgs.to /\ stArgs.amount = wfArgs.amount

\* C31: an entry of the decimals cache, once a lookup has set it, is never
\* removed or changed, whatever the order of the lookups and of the delayed
\* preload.
C31_CacheAppendOnly ==
    [][\A t \in SupportedTokens :
          decimalsCache[t] # NotAsked => decimalsCache'[t] = decimalsCache[t]]_vars

\* C38: getTokenDecimals does not fail and the value it has returned for an
\* address, the fallback of a failed read included, is the value of every
\* later call: the decimals of the destination with which the second
\* invocation formats its quote are those of the first.
C38_FallbackSticks ==
    /\ SecondOver
    /\ firstRun.res.kind # "none"
    /\ qres.kind # "none"
    => qres.amountOut.decimals = firstRun.res.amountOut.decimals

\* C32: the fee that swap passes to exactInputSingle is one of the
\* configured fee tiers, whether the quote came from the aggregator, from a
\* direct pool or from a route of two hops.
C32_FeeIsConfiguredTier ==
    SwapSubmitted => sl.params.fee \in Range(feeTiers)

\* C33: the swap submitted follows the route of the quote that gave its
\* amountOutMinimum: the quote is not one of the aggregator, and the pool
\* swapped on is the route quoted, so a route of two hops is not executed as
\* one hop from the source to the destination.
C33_SwapFollowsQuotedRoute ==
    SwapSubmitted =>
        /\ sl.quoted.kind # "1inch"
        /\ [i \in DOMAIN sl.quoted.route |-> QuoteSymbol(sl.quoted.route[i])]
              = <<sl.params.tokenIn, sl.params.tokenOut>>

\* C34: a run of smartStakeWithAutoFunding or of autoStakeWithBestAPY with
\* the execution flag off never returns a record that reports the operation
\* as completed: what it returns without failure is marked as a simulation.
C34_SimulationFlagReflectsMode ==
    /\ ~AUTO_EXECUTE
    /\ entry \in {"smartStakeWithAutoFunding", "autoStakeWithBestAPY"}
    /\ wf.pc = "done"
    => result.status # "ok"

\* C35: once the first attempt of a swap_execute call has thrown after a swap
\* transaction was submitted, the handler submits no further swap
\* transaction for the request.
C35_NoSwapAfterThrow ==
    [][(wf.pc = "tool_retry" /\ SwapTxs # {}) => SwapTxs' = SwapTxs]_vars

\* the stage outcomes that report a failure
FailedStages == {"funding-swap:failed", "target-swap:failed", "deposit:failed"}

\* C36: smartStakeWithAutoFunding and smartDeposit never end by throwing;
\* the record they return has success = false whenever a stage they invoked
\* failed, so success = true is returned only if every invoked stage returned
\* without failure.
C36_FailuresAreReturned ==
    (entry \in {"smartStakeWithAutoFunding", "smartDeposit"} /\ wf.pc = "done") =>
        /\ result.status \in {"ok", "sim", "fail"}
        /\ (\E i \in DOMAIN stages : stages[i] \in FailedStages) => result.status = "fail"

\* a workflow whose funding swap succeeded and whose deposit failed has
\* returned success = false
C36_Witness ==
    /\ entry \in {"smartStakeWithAutoFunding", "smartDeposit"}
    /\ wf.pc = "done"
    /\ \E i \in DOMAIN stages : stages[i] = "funding-swap:ok"
    /\ \E i \in DOMAIN stages : stages[i] = "deposit:failed"
    /\ result.status = "fail"

\* C37: handleRequest answers a request with exactly one response, which
\* echoes the request's id and carries a result or an error and never both
\* or neither; the error code is -32601 for an unknown method, -32000 for an
\* unknown tool or a tool that fails, and -32603 for any other exception.
C37_OneJsonRpcResponse ==
    /\ Len(rq.out) <= 1
    /\ rq.pc = "responded" =>
         /\ Len(rq.out) = 1
         /\ rq.out[1].id = rq.id
         /\ rq.out[1].result <=> (rq.out[1].error = 0)
         /\ rq.method \notin Methods => rq.out[1].error = MethodNotFound
         /\ (rq.method = "tools/call" /\ rq.params /\ rq.tool \notin ToolNames) =>
                rq.out[1].error = ToolFailed
         /\ (rq.method = "tools/call" /\ rq.params /\ rq.out[1].error # 0) =>
                rq.out[1].error = ToolFailed
         /\ (rq.method \in Methods /\ ~(rq.method = "tools/call" /\ rq.params)
               /\ rq.out[1].error # 0) =>
                rq.out[1].error = InternalError

\* a tools/call request for an unknown tool has been answered
C37_Witness ==
    /\ rq.pc = "responded"
    /\ rq.method = "tools/call"
    /\ rq.params
    /\ rq.tool \notin ToolNames
    /\ rq.out[1].error = ToolFailed

\* the calls of one getQuote to the aggregator and to the AMM quoter
AggregatorCalls == {i \in DOMAIN qlog : qlog[i].kind = "aggregator"}
QuoterCalls == {i \in DOMAIN qlog : qlog[i].kind = "quoter"}

\* the quotes autoStakeWithBestAPY requested for a token on a pass
PlanQuotesOf(token, pass) ==
    {i \in DOMAIN pl.quotes : pl.quotes[i].from = token /\ pl.quotes[i].pass = pass}

====
